---- MODULE Spec2Model ----
(***************************************************************************)
(* bofhound: the streaming LDAP record parser (parsers/types.py) and the   *)
(* resolution of security descriptors into access-control relationships    *)
(* (ad/acl_worker.py, ad/acl_processor.py).                                *)
(*                                                                         *)
(* A line is a sequence of one-character strings, so that strip, lower,    *)
(* split-at-first-colon and startswith are computed character by           *)
(* character.  An attribute record (a Python dict) is a function from keys *)
(* (character sequences) to values (character sequences).                  *)
(***************************************************************************)
EXTENDS Integers, Sequences, FiniteSets, TLC

VARIABLES
    parsing_state,          \* LdapRecordParser._parsing_state
    current_record_lines,   \* LdapRecordParser._current_record_lines
    ldap_records,           \* LdapRecordParser._ldap_records
    accumulated_chars,      \* BoundaryDetector._accumulated_chars
    returned,               \* what the last get_results() call returned
    last_line,              \* history: the line of the last detector call
    last_result,            \* history: the BoundaryResult of the last call
    run_len,                \* history: characters of the literal fed as chunks
    fed,                    \* history: every line processed, with its class
    pc,                     \* the log writer's position in its scenario
    plan,                   \* the log writer's choices for its scenario
    entry_data,             \* the object given to an ACL resolver
    context,                \* the lookup context given to an ACL resolver
    outcome,                \* what the last call of an ACL resolver gave
    dispatcher,             \* process_acls_parallel: its locals and its pool
    cache,                  \* ObjectCache: the database file and the connection
    changed,                \* the last get_changed_objects call and its result
    run,                    \* main(): its options and how far it has come
    data_source,            \* FileDataSource: the directory and the streams
    pipeline                \* ParsingPipeline: its files, its pool, its result

parser_vars == <<parsing_state, current_record_lines, ldap_records,
                 accumulated_chars, returned, last_line, last_result, run_len,
                 fed, plan>>

acl_vars == <<entry_data, context, outcome, dispatcher>>

run_vars == <<cache, changed, run, data_source, pipeline>>

vars == <<parsing_state, current_record_lines, ldap_records, accumulated_chars,
          returned, last_line, last_result, run_len, fed, pc, plan,
          entry_data, context, outcome, dispatcher,
          cache, changed, run, data_source, pipeline>>

-----------------------------------------------------------------------------
(* Bounds of the model *)

MaxOps == 5

MaxPre == 1

MaxAttrs == 3

MaxChunkAttrs == 1

MaxGap == 2

MaxContext == 1

-----------------------------------------------------------------------------
(* Enumerations *)

WAITING_FOR_LDAP_OBJECT == "waiting_for_ldap_object"
IN_LDAP_OBJECT == "in_ldap_object"

NOT_BOUNDARY == "not_boundary"
PARTIAL_BOUNDARY == "partial_boundary"
COMPLETE_BOUNDARY == "complete_boundary"

-----------------------------------------------------------------------------
(* Strings *)

Whitespace == {" ", "\t", "\n", "\r"}

Digits == {"0", "1", "2", "3", "4", "5", "6", "7", "8", "9"}

UpperCase == <<"A", "B", "C", "D", "E", "F", "G", "H", "I", "J", "K", "L", "M",
               "N", "O", "P", "Q", "R", "S", "T", "U", "V", "W", "X", "Y", "Z">>

LowerCase == <<"a", "b", "c", "d", "e", "f", "g", "h", "i", "j", "k", "l", "m",
               "n", "o", "p", "q", "r", "s", "t", "u", "v", "w", "x", "y", "z">>

\* str.lower() on one character
LowerChar(c) ==
    IF \E i \in 1..Len(UpperCase) : UpperCase[i] = c
    THEN LowerCase[CHOOSE i \in 1..Len(UpperCase) : UpperCase[i] = c]
    ELSE c

\* str.lower()
Lower(s) == [i \in 1..Len(s) |-> LowerChar(s[i])]

\* str.strip(): drop leading and trailing whitespace
Strip(s) ==
    LET keep == {i \in 1..Len(s) : s[i] \notin Whitespace}
    IN  IF keep = {} THEN <<>>
        ELSE LET lo == CHOOSE i \in keep : \A j \in keep : i <= j
                 hi == CHOOSE i \in keep : \A j \in keep : j <= i
             IN  SubSeq(s, lo, hi)

\* str.startswith(prefix)
StartsWith(s, prefix) ==
    /\ Len(prefix) <= Len(s)
    /\ SubSeq(s, 1, Len(prefix)) = prefix

\* c * n
Repeat(c, n) == [i \in 1..n |-> c]

-----------------------------------------------------------------------------
(* The ldapsearch BOF parser's configuration *)

RESULT_DELIMITER == "-"

RESULT_BOUNDARY_LENGTH == 20

\* the boundary literal, "-" * 20
boundary_pattern == Repeat(RESULT_DELIMITER, RESULT_BOUNDARY_LENGTH)

\* ^\d{2}\/\d{2} \d{2}:\d{2}:\d{2} UTC \[output\]$
new_message_pattern(line) ==
    /\ Len(line) = 27
    /\ \A i \in {1, 2, 4, 5, 7, 8, 10, 11, 13, 14} : line[i] \in Digits
    /\ line[3] = "/"
    /\ line[6] = " "
    /\ line[9] = ":"
    /\ line[12] = ":"
    /\ SubSeq(line, 15, 27) =
         <<" ", "U", "T", "C", " ", "[", "o", "u", "t", "p", "u", "t", "]">>

\* line == "received output:"
is_received_output_line(line) ==
    line = <<"r", "e", "c", "e", "i", "v", "e", "d", " ",
             "o", "u", "t", "p", "u", "t", ":">>

\* ^(R|r)etr(e|i)(e|i)ved \d+ results?   (re.match: anchored at the start only)
retrieved_pattern(line) ==
    /\ Len(line) >= 10
    /\ line[1] \in {"R", "r"}
    /\ SubSeq(line, 2, 4) = <<"e", "t", "r">>
    /\ line[5] \in {"e", "i"}
    /\ line[6] \in {"e", "i"}
    /\ SubSeq(line, 7, 10) = <<"v", "e", "d", " ">>
    /\ \E n \in 1..(Len(line) - 10) :
         /\ \A i \in 11..(10 + n) : line[i] \in Digits
         /\ StartsWith(SubSeq(line, 11 + n, Len(line)),
                       <<" ", "r", "e", "s", "u", "l", "t">>)

-----------------------------------------------------------------------------
(* BoundaryDetector *)

\* mutant: the count is set to the length of the line instead of advanced by it
BoundaryDetector_process_line_assigns(acc, line) ==
    IF line = <<>>
    THEN [result |-> NOT_BOUNDARY, accumulated_chars |-> acc]
    ELSE LET remaining_pattern ==
                 SubSeq(boundary_pattern, acc + 1, Len(boundary_pattern))
         IN  IF StartsWith(remaining_pattern, line)
             THEN IF Len(line) = Len(boundary_pattern)
                  THEN [result |-> COMPLETE_BOUNDARY, accumulated_chars |-> 0]
                  ELSE [result |-> PARTIAL_BOUNDARY,
                        accumulated_chars |-> Len(line)]
             ELSE [result |-> NOT_BOUNDARY, accumulated_chars |-> acc]

\* mutant: a mismatch calls _reset()
BoundaryDetector_process_line_resets(acc, line) ==
    IF line = <<>>
    THEN [result |-> NOT_BOUNDARY, accumulated_chars |-> acc]
    ELSE LET remaining_pattern ==
                 SubSeq(boundary_pattern, acc + 1, Len(boundary_pattern))
         IN  IF StartsWith(remaining_pattern, line)
             THEN IF acc + Len(line) = Len(boundary_pattern)
                  THEN [result |-> COMPLETE_BOUNDARY, accumulated_chars |-> 0]
                  ELSE [result |-> PARTIAL_BOUNDARY,
                        accumulated_chars |-> acc + Len(line)]
             ELSE [result |-> NOT_BOUNDARY, accumulated_chars |-> 0]

\* mutant: _reset() is not called when the boundary completes
BoundaryDetector_process_line_keeps(acc, line) ==
    IF line = <<>>
    THEN [result |-> NOT_BOUNDARY, accumulated_chars |-> acc]
    ELSE LET remaining_pattern ==
                 SubSeq(boundary_pattern, acc + 1, Len(boundary_pattern))
         IN  IF StartsWith(remaining_pattern, line)
             THEN IF acc + Len(line) = Len(boundary_pattern)
                  THEN [result |-> COMPLETE_BOUNDARY,
                        accumulated_chars |-> acc + Len(line)]
                  ELSE [result |-> PARTIAL_BOUNDARY,
                        accumulated_chars |-> acc + Len(line)]
             ELSE [result |-> NOT_BOUNDARY, accumulated_chars |-> acc]

\* mutant: the line is matched against the whole literal, not the remaining part
BoundaryDetector_process_line_whole(acc, line) ==
    IF line = <<>>
    THEN [result |-> NOT_BOUNDARY, accumulated_chars |-> acc]
    ELSE IF StartsWith(boundary_pattern, line)
         THEN IF acc + Len(line) = Len(boundary_pattern)
              THEN [result |-> COMPLETE_BOUNDARY, accumulated_chars |-> 0]
              ELSE [result |-> PARTIAL_BOUNDARY,
                    accumulated_chars |-> acc + Len(line)]
         ELSE [result |-> NOT_BOUNDARY, accumulated_chars |-> acc]

\* mutant: the "if not line" guard is missing
BoundaryDetector_process_line_unguarded(acc, line) ==
    LET remaining_pattern ==
            SubSeq(boundary_pattern, acc + 1, Len(boundary_pattern))
    IN  IF StartsWith(remaining_pattern, line)
        THEN IF acc + Len(line) = Len(boundary_pattern)
             THEN [result |-> COMPLETE_BOUNDARY, accumulated_chars |-> 0]
             ELSE [result |-> PARTIAL_BOUNDARY,
                   accumulated_chars |-> acc + Len(line)]
        ELSE [result |-> NOT_BOUNDARY, accumulated_chars |-> acc]

\* mutant: a line that does not continue a pending match is tried again as
\* the start of a new match
BoundaryDetector_process_line_restarts(acc, line) ==
    LET remaining_pattern ==
            SubSeq(boundary_pattern, acc + 1, Len(boundary_pattern))
        matched == IF StartsWith(remaining_pattern, line) THEN acc
                   ELSE IF StartsWith(boundary_pattern, line) THEN 0 ELSE -1
    IN  IF line = <<>> \/ matched = -1
        THEN [result |-> NOT_BOUNDARY, accumulated_chars |-> acc]
        ELSE IF matched + Len(line) = Len(boundary_pattern)
             THEN [result |-> COMPLETE_BOUNDARY, accumulated_chars |-> 0]
             ELSE [result |-> PARTIAL_BOUNDARY,
                   accumulated_chars |-> matched + Len(line)]

\* BoundaryDetector.process_line: the result and the new accumulated count
BoundaryDetector_process_line(acc, line) ==
    IF line = <<>>
    THEN [result |-> NOT_BOUNDARY, accumulated_chars |-> acc]
    ELSE LET remaining_pattern ==
                 SubSeq(boundary_pattern, acc + 1, Len(boundary_pattern))
         IN  IF StartsWith(remaining_pattern, line)
             THEN IF acc + Len(line) = Len(boundary_pattern)
                  THEN [result |-> COMPLETE_BOUNDARY, accumulated_chars |-> 0]
                  ELSE [result |-> PARTIAL_BOUNDARY,
                        accumulated_chars |-> acc + Len(line)]
             ELSE [result |-> NOT_BOUNDARY, accumulated_chars |-> acc]

-----------------------------------------------------------------------------
(* LdapRecordParser: building a record from the lines of a block *)

\* the index of the first ":" of the line, 0 when there is none
FirstColon(line) ==
    IF \E i \in 1..Len(line) : line[i] = ":"
    THEN CHOOSE i \in 1..Len(line) :
             /\ line[i] = ":"
             /\ \A j \in 1..(i - 1) : line[j] # ":"
    ELSE 0

\* mutant: the key is not lower-cased
get_key_value_as_written(line) ==
    LET c == IF \E i \in 1..Len(line) : line[i] = ":"
             THEN CHOOSE i \in 1..Len(line) :
                      line[i] = ":" /\ \A j \in 1..(i - 1) : line[j] # ":"
             ELSE 0
    IN  IF c = 0
        THEN [key |-> Strip(line), has_value |-> FALSE, value |-> <<>>]
        ELSE [key |-> Strip(SubSeq(line, 1, c - 1)),
              has_value |-> TRUE,
              value |-> Strip(SubSeq(line, c + 1, Len(line)))]

\* LdapRecordParser.get_key_value: has_value is FALSE where the code has None
get_key_value(line) ==
    LET c == FirstColon(line)
    IN  IF c = 0
        THEN [key |-> Lower(Strip(line)), has_value |-> FALSE, value |-> <<>>]
        ELSE [key |-> Lower(Strip(SubSeq(line, 1, c - 1))),
              has_value |-> TRUE,
              value |-> Strip(SubSeq(line, c + 1, Len(line)))]

\* Python's "if value:" for None or a string
Truthy(kv) == kv.has_value /\ kv.value # <<>>

EmptyDict == [k \in {} |-> <<>>]

\* attributes[key] = value
DictSet(attributes, key, value) ==
    [k \in (DOMAIN attributes) \cup {key} |->
        IF k = key THEN value ELSE attributes[k]]

\* the locals of _parse_lines_to_attributes before the loop
AccumulatorInit ==
    [break_in_previous_message |-> FALSE,
     in_attribute_key |-> TRUE,
     current_attribute |-> <<>>,
     attributes |-> EmptyDict,
     key_error |-> FALSE]

\* mutant: a line without a value leaves in_attribute_key as it is
AccumulatorStep_keeps_flag(a, line) ==
    IF Strip(line) = <<>>
    THEN [a EXCEPT !.break_in_previous_message = TRUE]
    ELSE LET kv == get_key_value(line)
         IN  IF a.break_in_previous_message
             THEN IF a.in_attribute_key
                  THEN LET cur == a.current_attribute \o kv.key
                       IN  IF Truthy(kv)
                           THEN [a EXCEPT !.break_in_previous_message = FALSE,
                                          !.current_attribute = cur,
                                          !.attributes = DictSet(@, cur, kv.value),
                                          !.in_attribute_key = FALSE]
                           ELSE [a EXCEPT !.break_in_previous_message = FALSE,
                                          !.current_attribute = cur]
                  ELSE IF a.current_attribute \in DOMAIN a.attributes
                       THEN [a EXCEPT !.break_in_previous_message = FALSE,
                                      !.attributes = DictSet(@, a.current_attribute,
                                                  @[a.current_attribute] \o line)]
                       ELSE [a EXCEPT !.break_in_previous_message = FALSE,
                                      !.key_error = TRUE]
             ELSE IF Truthy(kv)
                  THEN [a EXCEPT !.current_attribute = kv.key,
                                 !.attributes = DictSet(@, kv.key, kv.value),
                                 !.in_attribute_key = FALSE]
                  ELSE [a EXCEPT !.current_attribute = kv.key]

\* one iteration of the loop of _parse_lines_to_attributes
AccumulatorStep(a, line) ==
    IF Strip(line) = <<>>
    THEN [a EXCEPT !.break_in_previous_message = TRUE]
    ELSE LET kv == get_key_value(line)
         IN  IF a.break_in_previous_message
             THEN IF a.in_attribute_key
                  THEN LET cur == a.current_attribute \o kv.key
                       IN  IF Truthy(kv)
                           THEN [a EXCEPT !.break_in_previous_message = FALSE,
                                          !.current_attribute = cur,
                                          !.attributes = DictSet(@, cur, kv.value),
                                          !.in_attribute_key = FALSE]
                           ELSE [a EXCEPT !.break_in_previous_message = FALSE,
                                          !.current_attribute = cur]
                  ELSE IF a.current_attribute \in DOMAIN a.attributes
                       THEN [a EXCEPT !.break_in_previous_message = FALSE,
                                      !.attributes = DictSet(@, a.current_attribute,
                                                  @[a.current_attribute] \o line)]
                       ELSE [a EXCEPT !.break_in_previous_message = FALSE,
                                      !.key_error = TRUE]
             ELSE IF Truthy(kv)
                  THEN [a EXCEPT !.current_attribute = kv.key,
                                 !.attributes = DictSet(@, kv.key, kv.value),
                                 !.in_attribute_key = FALSE]
                  ELSE [a EXCEPT !.current_attribute = kv.key,
                                 !.in_attribute_key = TRUE]

RECURSIVE AccumulatorRun(_, _)
\* the loop of _parse_lines_to_attributes over the lines of the block
AccumulatorRun(a, lines) ==
    IF lines = <<>> THEN a
    ELSE AccumulatorRun(AccumulatorStep(a, Head(lines)), Tail(lines))

\* LdapRecordParser._post_process_attributes
post_process_attributes(attributes) == attributes

\* LdapRecordParser._parse_lines_to_attributes
parse_lines_to_attributes(lines) ==
    post_process_attributes(AccumulatorRun(AccumulatorInit, lines).attributes)

-----------------------------------------------------------------------------
(* LdapRecordParser: the state machine.  p is the parser object:           *)
(* [parsing_state, current_record_lines, ldap_records, accumulated_chars]. *)

\* mutant: only the timestamp pattern is in the list of skippable patterns
should_skip_line_timestamp_only(line) == new_message_pattern(line)

\* LdapRecordParser.should_skip_line
should_skip_line(line) ==
    new_message_pattern(line) \/ is_received_output_line(line)

\* LdapRecordParser._is_end_of_tool_output
is_end_of_tool_output(line) == retrieved_pattern(line)

\* mutant: the lines of the block are not cleared after the record was built
save_current_record_keeps_lines(p) ==
    LET attributes == parse_lines_to_attributes(p.current_record_lines)
    IN  [p EXCEPT !.ldap_records =
                      IF DOMAIN attributes # {} THEN Append(@, attributes) ELSE @]

\* LdapRecordParser._save_current_record
save_current_record(p) ==
    LET attributes == parse_lines_to_attributes(p.current_record_lines)
    IN  [p EXCEPT !.ldap_records =
                      IF DOMAIN attributes # {} THEN Append(@, attributes) ELSE @,
                  !.current_record_lines = <<>>]

\* mutant: the end of the tool's output closes the block and leaves the state
handle_end_of_tool_output_stays(p) ==
    IF p.parsing_state = IN_LDAP_OBJECT THEN save_current_record(p) ELSE p

\* LdapRecordParser._handle_end_of_tool_output
handle_end_of_tool_output(p) ==
    LET q == IF p.parsing_state = IN_LDAP_OBJECT THEN save_current_record(p) ELSE p
    IN  [q EXCEPT !.parsing_state = WAITING_FOR_LDAP_OBJECT]

\* mutant: closing a block returns the parser to waiting
handle_boundary_line_waits(p) ==
    IF p.parsing_state # IN_LDAP_OBJECT
    THEN [p EXCEPT !.parsing_state = IN_LDAP_OBJECT]
    ELSE [save_current_record(p) EXCEPT !.parsing_state = WAITING_FOR_LDAP_OBJECT]

\* LdapRecordParser._handle_boundary_line
handle_boundary_line(p) ==
    IF p.parsing_state # IN_LDAP_OBJECT
    THEN [p EXCEPT !.parsing_state = IN_LDAP_OBJECT]
    ELSE save_current_record(p)

\* mutant: the line is put in front of the lines of the block
handle_content_line_prepends(p, line) ==
    IF p.parsing_state = IN_LDAP_OBJECT
    THEN [p EXCEPT !.current_record_lines = <<line>> \o @]
    ELSE p

\* LdapRecordParser._handle_content_line
handle_content_line(p, line) ==
    IF p.parsing_state = IN_LDAP_OBJECT
    THEN [p EXCEPT !.current_record_lines = Append(@, line)]
    ELSE p

\* mutant: a partial boundary line is handled as a line that is no boundary
process_line_partial_as_content(p, raw) ==
    LET line == Strip(raw)
        bd == BoundaryDetector_process_line(p.accumulated_chars, line)
        q == [p EXCEPT !.accumulated_chars = bd.accumulated_chars]
    IN  IF bd.result = COMPLETE_BOUNDARY THEN handle_boundary_line(q)
        ELSE IF is_end_of_tool_output(line) THEN handle_end_of_tool_output(q)
        ELSE IF ~should_skip_line(line) THEN handle_content_line(q, line)
        ELSE q

\* LdapRecordParser.process_line
process_line(p, raw) ==
    LET line == Strip(raw)
        bd == BoundaryDetector_process_line(p.accumulated_chars, line)
        q == [p EXCEPT !.accumulated_chars = bd.accumulated_chars]
    IN  IF bd.result = COMPLETE_BOUNDARY THEN handle_boundary_line(q)
        ELSE IF bd.result = PARTIAL_BOUNDARY THEN q
        ELSE IF is_end_of_tool_output(line) THEN handle_end_of_tool_output(q)
        ELSE IF ~should_skip_line(line) THEN handle_content_line(q, line)
        ELSE q

\* mutant: the pending block is not completed
get_results_drops(p) == p

\* LdapRecordParser.get_results: the parser after the call; the list returned
\* is its ldap_records
get_results(p) ==
    IF p.current_record_lines # <<>> THEN save_current_record(p) ELSE p

\* LdapRecordParser.__init__
NewParser ==
    [parsing_state |-> WAITING_FOR_LDAP_OBJECT,
     current_record_lines |-> <<>>,
     ldap_records |-> <<>>,
     accumulated_chars |-> 0]

\* the parser object as the variables hold it
Parser ==
    [parsing_state |-> parsing_state,
     current_record_lines |-> current_record_lines,
     ldap_records |-> ldap_records,
     accumulated_chars |-> accumulated_chars]

-----------------------------------------------------------------------------
(* Input lines of the model, as the data stream delivers them *)

LINE_BLANK == <<"\n">>

LINE_HALF == Repeat(RESULT_DELIMITER, 10)

\* "cN : a:b\n"
LINE_KV1 == <<"c", "N", " ", ":", " ", "a", ":", "b", "\n">>

\* "d: 1"
LINE_KV2 == <<"d", ":", " ", "1">>

\* " Ou:x-"
LINE_KV3 == <<" ", "O", "u", ":", "x", "-">>

\* "x"
LINE_FRAGMENT == <<"x">>

\* "12/05 02:31:52 UTC [output]"
LINE_TIMESTAMP ==
    <<"1", "2", "/", "0", "5", " ", "0", "2", ":", "3", "1", ":", "5", "2",
      " ", "U", "T", "C", " ", "[", "o", "u", "t", "p", "u", "t", "]">>

\* "received output:"
LINE_RECEIVED ==
    <<"r", "e", "c", "e", "i", "v", "e", "d", " ",
      "o", "u", "t", "p", "u", "t", ":">>

\* "Retrieved 1 results"
LINE_RETRIEVED ==
    <<"R", "e", "t", "r", "i", "e", "v", "e", "d", " ", "1", " ",
      "r", "e", "s", "u", "l", "t", "s">>

\* "Cn: z"
LINE_KV4 == <<"C", "n", ":", " ", "z">>

\* "uAC: 66048"
LINE_UAC == <<"u", "A", "C", ":", " ", "6", "6", "0", "4", "8">>

\* "retreived 12 result"
LINE_RETRIEVED_12 ==
    <<"r", "e", "t", "r", "e", "i", "v", "e", "d", " ", "1", "2", " ",
      "r", "e", "s", "u", "l", "t">>

\* "Running ldapsearch"
LINE_ECHO ==
    <<"R", "u", "n", "n", "i", "n", "g", " ",
      "l", "d", "a", "p", "s", "e", "a", "r", "c", "h">>

AttributeLines == {LINE_KV1, LINE_KV2, LINE_KV3, LINE_KV4}

\* what a new message of the C2 log puts between two pieces of output
GapLines == {LINE_BLANK, LINE_TIMESTAMP, LINE_RECEIVED}

BannerLines == {LINE_TIMESTAMP, LINE_RECEIVED}

ContextLines == {LINE_KV2, LINE_FRAGMENT, LINE_BLANK}

SplitLines == {LINE_KV1, LINE_KV3, LINE_UAC}

EndLines == {LINE_RETRIEVED, LINE_RETRIEVED_12}

\* what a tasking issued in the middle of a search puts into the log
TaskingLines == BannerLines \cup {LINE_ECHO}

Alphabet ==
    {LINE_BLANK, boundary_pattern, LINE_HALF, LINE_KV1, LINE_KV2,
     LINE_FRAGMENT, LINE_TIMESTAMP, LINE_RETRIEVED}

\* lines that are no piece of the boundary literal
PlainLines ==
    AttributeLines \cup EndLines \cup {LINE_BLANK, LINE_FRAGMENT, LINE_TIMESTAMP}

\* lines given to a BoundaryDetector on its own: every run of the delimiter up
\* to one more than the literal, text, blanks, and the literal with a tail
DetectorLines ==
    {Repeat(RESULT_DELIMITER, k) : k \in 0..(RESULT_BOUNDARY_LENGTH + 1)}
    \cup {LINE_FRAGMENT, <<" ", " ", " ">>, boundary_pattern \o LINE_FRAGMENT,
          <<"-", "x">>}

-----------------------------------------------------------------------------
(* Actions *)

NoPlan == [k |-> 0, line |-> <<>>, p |-> 0, n |-> 0]

NotReturned == [called |-> FALSE, list |-> <<>>]

\* the cache, main() and the data source are not part of the scenario
IdleRun ==
    /\ cache = "none"
    /\ changed = "none"
    /\ run = "none"
    /\ data_source = "none"
    /\ pipeline = "none"

InitParser ==
    /\ parsing_state = NewParser.parsing_state
    /\ current_record_lines = NewParser.current_record_lines
    /\ ldap_records = NewParser.ldap_records
    /\ accumulated_chars = NewParser.accumulated_chars
    /\ returned = NotReturned
    /\ last_line = <<>>
    /\ last_result = "none"
    /\ run_len = 0
    /\ fed = <<>>
    /\ plan = NoPlan
    /\ entry_data = "none"
    /\ context = "none"
    /\ outcome = "none"
    /\ dispatcher = "none"
    /\ IdleRun

\* the chunk run of the boundary literal after feeding line: the number of
\* characters of the literal delivered since the detector had nothing pending,
\* -1 once a line of the run was not the next non-empty piece of the literal
NextRunLen(line) ==
    LET start == IF accumulated_chars = 0 THEN 0 ELSE run_len
    IN  IF /\ start >= 0
           /\ line # <<>>
           /\ start + Len(line) <= Len(boundary_pattern)
           /\ line = SubSeq(boundary_pattern, start + 1, start + Len(line))
        THEN start + Len(line)
        ELSE -1

\* one call of BoundaryDetector.process_line on a detector of its own
Detect(line) ==
    LET bd == BoundaryDetector_process_line(accumulated_chars, line)
    IN  /\ accumulated_chars' = bd.accumulated_chars
        /\ last_line' = line
        /\ last_result' = bd.result
        /\ run_len' = NextRunLen(line)
        /\ UNCHANGED <<parsing_state, current_record_lines, ldap_records,
                       returned, fed, pc, plan>>
        /\ UNCHANGED <<acl_vars, run_vars>>

\* one call of LdapRecordParser.process_line
ProcessLine(raw) ==
    LET p == process_line(Parser, raw)
        line == Strip(raw)
        bd == BoundaryDetector_process_line(accumulated_chars, line)
    IN  /\ parsing_state' = p.parsing_state
        /\ current_record_lines' = p.current_record_lines
        /\ ldap_records' = p.ldap_records
        /\ accumulated_chars' = p.accumulated_chars
        /\ returned' = NotReturned
        /\ last_line' = line
        /\ last_result' = bd.result
        /\ run_len' = NextRunLen(line)
        /\ fed' = Append(fed, [op |-> "process_line", raw |-> raw,
                               line |-> line, result |-> bd.result])
        /\ UNCHANGED <<acl_vars, run_vars>>

\* one call of LdapRecordParser.get_results
GetResults ==
    LET p == get_results(Parser)
    IN  /\ parsing_state' = p.parsing_state
        /\ current_record_lines' = p.current_record_lines
        /\ ldap_records' = p.ldap_records
        /\ accumulated_chars' = p.accumulated_chars
        /\ returned' = [called |-> TRUE, list |-> p.ldap_records]
        /\ fed' = Append(fed, [op |-> "get_results", raw |-> <<>>,
                               line |-> <<>>, result |-> "none"])
        /\ UNCHANGED <<last_line, last_result, run_len>>
        /\ UNCHANGED <<acl_vars, run_vars>>

-----------------------------------------------------------------------------
(* Spec: a parser fed any lines of the alphabet, get_results() at any time *)

Init ==
    /\ InitParser
    /\ pc = "free"

FeedLine ==
    /\ Len(fed) < MaxOps
    /\ \E raw \in Alphabet : ProcessLine(raw)
    /\ UNCHANGED <<pc, plan>>

Collect ==
    /\ Len(fed) < MaxOps
    /\ GetResults
    /\ UNCHANGED <<pc, plan>>

Next == FeedLine \/ Collect

Spec == Init /\ [][Next]_vars

-----------------------------------------------------------------------------
(* SpecDetector: a BoundaryDetector on its own, as the unit test drives it *)

InitDetector ==
    /\ InitParser
    /\ pc = "detector"

DetectorCall == \E line \in DetectorLines : Detect(line)

NextDetector == DetectorCall

SpecDetector == InitDetector /\ [][NextDetector]_vars

-----------------------------------------------------------------------------
(* SpecBlock: lines before the opening boundary, then one block of         *)
(* attribute lines between two boundary lines, then get_results()          *)

InitBlock ==
    /\ InitParser
    /\ pc = "pre"

BlockPre ==
    /\ pc = "pre"
    /\ plan.n < MaxPre
    /\ \E raw \in Alphabet : ProcessLine(raw)
    /\ plan' = [plan EXCEPT !.n = @ + 1]
    /\ pc' = pc

BlockOpen ==
    /\ pc = "pre"
    /\ ProcessLine(boundary_pattern)
    /\ plan' = [plan EXCEPT !.n = 0]
    /\ pc' = "body"

BlockBody ==
    /\ pc = "body"
    /\ plan.n < MaxAttrs
    /\ \E raw \in AttributeLines : ProcessLine(raw)
    /\ plan' = [plan EXCEPT !.n = @ + 1]
    /\ pc' = pc

BlockClose ==
    /\ pc = "body"
    /\ plan.n >= 1
    /\ ProcessLine(boundary_pattern)
    /\ plan' = plan
    /\ pc' = "closed"

BlockCollect ==
    /\ pc = "closed"
    /\ GetResults
    /\ plan' = plan
    /\ pc' = "done"

NextBlock == BlockPre \/ BlockOpen \/ BlockBody \/ BlockClose \/ BlockCollect

SpecBlock == InitBlock /\ [][NextBlock]_vars

-----------------------------------------------------------------------------
(* SpecChunk: two objects whose common boundary line arrives as two chunks *)
(* with a message break between them                                       *)

InitChunk ==
    /\ InitParser
    /\ pc = "open"

ChunkOpen ==
    /\ pc = "open"
    /\ ProcessLine(boundary_pattern)
    /\ plan' = plan
    /\ pc' = "first"

ChunkFirstObject ==
    /\ pc = "first"
    /\ plan.n < MaxChunkAttrs
    /\ \E raw \in AttributeLines : ProcessLine(raw)
    /\ plan' = [plan EXCEPT !.n = @ + 1]
    /\ pc' = pc

ChunkHead ==
    /\ pc = "first"
    /\ plan.n >= 1
    /\ \E k \in 1..(RESULT_BOUNDARY_LENGTH - 1) :
         /\ ProcessLine(Repeat(RESULT_DELIMITER, k))
         /\ plan' = [plan EXCEPT !.k = k, !.n = 0]
    /\ pc' = "gap"

ChunkGap ==
    /\ pc = "gap"
    /\ plan.n < MaxGap
    /\ \E raw \in GapLines : ProcessLine(raw)
    /\ plan' = [plan EXCEPT !.n = @ + 1]
    /\ pc' = pc

ChunkTail ==
    /\ pc = "gap"
    /\ ProcessLine(Repeat(RESULT_DELIMITER, RESULT_BOUNDARY_LENGTH - plan.k))
    /\ plan' = [plan EXCEPT !.n = 0]
    /\ pc' = "second"

ChunkSecondObject ==
    /\ pc = "second"
    /\ plan.n < MaxChunkAttrs
    /\ \E raw \in AttributeLines : ProcessLine(raw)
    /\ plan' = [plan EXCEPT !.n = @ + 1]
    /\ pc' = pc

ChunkCollect ==
    /\ pc = "second"
    /\ plan.n >= 1
    /\ GetResults
    /\ plan' = plan
    /\ pc' = "done"

NextChunk ==
    \/ ChunkOpen
    \/ ChunkFirstObject
    \/ ChunkHead
    \/ ChunkGap
    \/ ChunkTail
    \/ ChunkSecondObject
    \/ ChunkCollect

SpecChunk == InitChunk /\ [][NextChunk]_vars

-----------------------------------------------------------------------------
(* SpecSplit: a block in which one attribute line arrives as two fragments *)
(* with a message break (a blank line, then banner lines) between them     *)

\* the positions of line after which it breaks inside the key token or inside
\* the value token: no whitespace and no key/value separator next to the break
SplitPositions(line) ==
    {q \in 1..(Len(line) - 1) :
        /\ line[q] \notin Whitespace
        /\ line[q + 1] \notin Whitespace
        /\ (q + 1 < FirstColon(line) \/ q > FirstColon(line))}

InitSplit ==
    /\ InitParser
    /\ pc = "open"

SplitOpen ==
    /\ pc = "open"
    /\ ProcessLine(boundary_pattern)
    /\ plan' = plan
    /\ pc' = "context"

SplitContext ==
    /\ pc = "context"
    /\ plan.n < MaxContext
    /\ \E raw \in ContextLines : ProcessLine(raw)
    /\ plan' = [plan EXCEPT !.n = @ + 1]
    /\ pc' = pc

SplitHead ==
    /\ pc = "context"
    /\ \E line \in SplitLines :
         \E q \in SplitPositions(line) :
            /\ ProcessLine(SubSeq(line, 1, q))
            /\ plan' = [plan EXCEPT !.line = line, !.p = q, !.k = plan.n]
    /\ pc' = "break"

SplitBreak ==
    /\ pc = "break"
    /\ ProcessLine(LINE_BLANK)
    /\ plan' = [plan EXCEPT !.n = 0]
    /\ pc' = "banner"

SplitBanner ==
    /\ pc = "banner"
    /\ plan.n < MaxGap
    /\ \E raw \in BannerLines : ProcessLine(raw)
    /\ plan' = [plan EXCEPT !.n = @ + 1]
    /\ pc' = pc

SplitTail ==
    /\ pc = "banner"
    /\ ProcessLine(SubSeq(plan.line, plan.p + 1, Len(plan.line)))
    /\ plan' = plan
    /\ pc' = "tail"

SplitCollect ==
    /\ pc = "tail"
    /\ GetResults
    /\ plan' = plan
    /\ pc' = "done"

NextSplit ==
    \/ SplitOpen
    \/ SplitContext
    \/ SplitHead
    \/ SplitBreak
    \/ SplitBanner
    \/ SplitTail
    \/ SplitCollect

SpecSplit == InitSplit /\ [][NextSplit]_vars

-----------------------------------------------------------------------------
(* SpecEnd: the end of the tool's output, in a block or before any, then   *)
(* lines that are no boundary, then a boundary line and a second object    *)

InitEnd ==
    /\ InitParser
    /\ pc = "start"

EndOpen ==
    /\ pc = "start"
    /\ ProcessLine(boundary_pattern)
    /\ plan' = plan
    /\ pc' = "first"

EndFirstObject ==
    /\ pc = "first"
    /\ plan.n < MaxChunkAttrs
    /\ \E raw \in AttributeLines : ProcessLine(raw)
    /\ plan' = [plan EXCEPT !.n = @ + 1]
    /\ pc' = pc

EndOfOutput ==
    /\ pc \in {"start", "first"}
    /\ \E raw \in EndLines : ProcessLine(raw)
    /\ plan' = [plan EXCEPT !.k = Len(fed) + 1, !.n = 0]
    /\ pc' = "after"

EndAfter ==
    /\ pc = "after"
    /\ plan.n < MaxGap
    /\ \E raw \in PlainLines : ProcessLine(raw)
    /\ plan' = [plan EXCEPT !.n = @ + 1]
    /\ pc' = pc

EndReopen ==
    /\ pc = "after"
    /\ ProcessLine(boundary_pattern)
    /\ plan' = [plan EXCEPT !.p = Len(fed) + 1, !.n = 0]
    /\ pc' = "second"

EndSecondObject ==
    /\ pc = "second"
    /\ plan.n < MaxChunkAttrs
    /\ \E raw \in AttributeLines : ProcessLine(raw)
    /\ plan' = [plan EXCEPT !.n = @ + 1]
    /\ pc' = pc

EndCollect ==
    /\ pc = "second"
    /\ plan.n >= 1
    /\ GetResults
    /\ plan' = plan
    /\ pc' = "done"

NextEnd ==
    \/ EndOpen
    \/ EndFirstObject
    \/ EndOfOutput
    \/ EndAfter
    \/ EndReopen
    \/ EndSecondObject
    \/ EndCollect

SpecEnd == InitEnd /\ [][NextEnd]_vars

-----------------------------------------------------------------------------
(* SpecTasking: a block in which the value of an attribute line is         *)
(* interrupted by the lines of a tasking, with no blank line in between    *)

\* the positions of line after which it breaks inside the value token
ValuePositions(line) == {q \in SplitPositions(line) : q > FirstColon(line)}

InitTasking ==
    /\ InitParser
    /\ pc = "open"

TaskingOpen ==
    /\ pc = "open"
    /\ ProcessLine(boundary_pattern)
    /\ plan' = plan
    /\ pc' = "head"

TaskingHead ==
    /\ pc = "head"
    /\ \E line \in SplitLines :
         \E q \in ValuePositions(line) :
            /\ ProcessLine(SubSeq(line, 1, q))
            /\ plan' = [plan EXCEPT !.line = line, !.p = q, !.n = 0]
    /\ pc' = "tasking"

TaskingInterrupt ==
    /\ pc = "tasking"
    /\ plan.n < MaxGap
    /\ \E raw \in TaskingLines : ProcessLine(raw)
    /\ plan' = [plan EXCEPT !.n = @ + 1]
    /\ pc' = pc

TaskingTail ==
    /\ pc = "tasking"
    /\ plan.n >= 1
    /\ ProcessLine(SubSeq(plan.line, plan.p + 1, Len(plan.line)))
    /\ plan' = plan
    /\ pc' = "tail"

TaskingClose ==
    /\ pc = "tail"
    /\ ProcessLine(boundary_pattern)
    /\ plan' = plan
    /\ pc' = "closed"

TaskingCollect ==
    /\ pc = "closed"
    /\ GetResults
    /\ plan' = plan
    /\ pc' = "done"

NextTasking ==
    \/ TaskingOpen
    \/ TaskingHead
    \/ TaskingInterrupt
    \/ TaskingTail
    \/ TaskingClose
    \/ TaskingCollect

SpecTasking == InitTasking /\ [][NextTasking]_vars

-----------------------------------------------------------------------------
(* Reading the history *)

Last(s) == s[Len(s)]

\* the last operation was process_line
IsLineStep(h) == h # <<>> /\ Last(h).op = "process_line"

\* a processed line that the parser takes as content
IsContent(e) ==
    /\ e.op = "process_line"
    /\ e.result = NOT_BOUNDARY
    /\ ~is_end_of_tool_output(e.line)
    /\ ~should_skip_line(e.line)

\* an entry after which no earlier line belongs to the open block
IsSeparator(e) ==
    \/ e.op = "get_results"
    \/ e.result = COMPLETE_BOUNDARY
    \/ (e.result = NOT_BOUNDARY /\ is_end_of_tool_output(e.line))

\* the index of the last separator among the first n entries, 0 if none
LastSeparator(h, n) ==
    IF \E i \in 1..n : IsSeparator(h[i])
    THEN CHOOSE i \in 1..n :
             IsSeparator(h[i]) /\ \A j \in (i + 1)..n : ~IsSeparator(h[j])
    ELSE 0

RECURSIVE Lines(_)
Lines(es) == IF es = <<>> THEN <<>> ELSE <<Head(es).line>> \o Lines(Tail(es))

\* the content lines of entries from..to of the history
ContentLines(h, from, to) == Lines(SelectSeq(SubSeq(h, from, to), IsContent))

\* a line that carries an attribute: a key, a colon and a non-empty value
IsAttributeLine(line) == Truthy(get_key_value(line))

\* the attribute name a line carries: the text before its first colon,
\* trimmed and lower-cased
AttributeName(raw) == Lower(Strip(SubSeq(raw, 1, FirstColon(raw) - 1)))

\* the attribute value a line carries: the text after its first colon, trimmed
AttributeValue(raw) == Strip(SubSeq(raw, FirstColon(raw) + 1, Len(raw)))

\* a 'key: value' line
IsKeyValueLine(raw) == FirstColon(raw) > 0 /\ AttributeValue(raw) # <<>>

\* the record of a sequence of 'key: value' lines: each name mapped to the
\* value of the last line that carries it
ExpectedRecord(raws) ==
    [name \in {AttributeName(raws[i]) : i \in 1..Len(raws)} |->
        LET at == CHOOSE i \in 1..Len(raws) :
                      /\ AttributeName(raws[i]) = name
                      /\ \A j \in (i + 1)..Len(raws) : AttributeName(raws[j]) # name
        IN  AttributeValue(raws[at])]

RECURSIVE Raws(_)
Raws(es) == IF es = <<>> THEN <<>> ELSE <<Head(es).raw>> \o Raws(Tail(es))

\* the index of the first entry of the history with this boundary result, 0 if none
FirstWith(h, result) ==
    IF \E i \in 1..Len(h) : h[i].result = result
    THEN CHOOSE i \in 1..Len(h) :
             h[i].result = result /\ \A j \in 1..(i - 1) : h[j].result # result
    ELSE 0

\* the index of the last entry of the history with this boundary result, 0 if none
LastWith(h, result) ==
    IF \E i \in 1..Len(h) : h[i].result = result
    THEN CHOOSE i \in 1..Len(h) :
             h[i].result = result /\ \A j \in (i + 1)..Len(h) : h[j].result # result
    ELSE 0

\* a non-empty line of delimiters only
IsDelimiterRun(line) == line # <<>> /\ line = Repeat(RESULT_DELIMITER, Len(line))

-----------------------------------------------------------------------------
(* C1: a block of 'key: value' lines with distinct keys and no blank line, *)
(* between two complete boundary lines, yields exactly one record from     *)
(* get_results(): the lower-cased, trimmed names mapped to the trimmed     *)
(* values; the lines before the opening boundary contribute nothing.       *)

\* the history is: any lines, the first complete boundary, one or more
\* 'key: value' lines with distinct names, a complete boundary, get_results()
C1_OneBlock ==
    LET n == Len(fed)
        open == FirstWith(fed, COMPLETE_BOUNDARY)
    IN  /\ returned.called
        /\ open > 0
        /\ open < n - 2
        /\ fed[n - 1].result = COMPLETE_BOUNDARY
        /\ \A i \in (open + 1)..(n - 2) :
              IsContent(fed[i]) /\ IsKeyValueLine(fed[i].raw)
        /\ \A i, j \in (open + 1)..(n - 2) :
              i # j => AttributeName(fed[i].raw) # AttributeName(fed[j].raw)

C1_BlockYieldsOneRecord ==
    C1_OneBlock
    => returned.list =
         <<ExpectedRecord(Raws(SubSeq(fed, FirstWith(fed, COMPLETE_BOUNDARY) + 1,
                                      Len(fed) - 2)))>>

\* three attribute lines after a line that came before the opening boundary
C1_Witness ==
    /\ C1_OneBlock
    /\ FirstWith(fed, COMPLETE_BOUNDARY) = 2
    /\ IsKeyValueLine(fed[1].raw)
    /\ Cardinality(DOMAIN returned.list[1]) = 3

-----------------------------------------------------------------------------
(* C2: a complete boundary while waiting opens a block and adds no record; *)
(* a complete boundary inside a block closes it (its record is appended    *)
(* iff it has an attribute, the lines are cleared) and the parser stays in *)
(* the block.                                                              *)

-----------------------------------------------------------------------------
(* C3: when the input ends inside an open block that holds an attribute    *)
(* line, get_results() returns, last, the record built from all the        *)
(* content lines received since the block was opened.                      *)

OpenBlockLines ==
    ContentLines(fed, LastSeparator(fed, Len(fed) - 1) + 1, Len(fed) - 1)

C3_EndOfInputFinalization ==
    (/\ returned.called
     /\ parsing_state = IN_LDAP_OBJECT
     /\ \E i \in 1..Len(OpenBlockLines) : IsAttributeLine(OpenBlockLines[i]))
    => /\ returned.list # <<>>
       /\ Last(returned.list) = parse_lines_to_attributes(OpenBlockLines)
       /\ DOMAIN Last(returned.list) # {}

\* get_results() completed an open block after an earlier record
C3_Witness ==
    /\ returned.called
    /\ parsing_state = IN_LDAP_OBJECT
    /\ \E i \in 1..Len(OpenBlockLines) : IsAttributeLine(OpenBlockLines[i])
    /\ Len(returned.list) = 2

-----------------------------------------------------------------------------
(* C4 as claimed: an attribute line that arrives as two fragments, broken  *)
(* inside its key token or inside its value token, with a blank line and   *)
(* any banner lines between the fragments, gives the record of the         *)
(* unbroken line: the whole lower-cased key mapped to the whole value.     *)

\* the lines of the block that came before the broken line
C4_Context == Lines(SubSeq(fed, 2, 1 + plan.k))

C4_BrokenLineRoundTrip ==
    pc = "done"
    => /\ returned.list =
            <<parse_lines_to_attributes(C4_Context \o <<Strip(plan.line)>>)>>
       /\ plan.k = 0
            => returned.list = <<ExpectedRecord(<<plan.line>>)>>

-----------------------------------------------------------------------------
(* C5: a boundary literal delivered as two chunks with only blank and      *)
(* banner lines between them is one complete boundary: the partial count   *)
(* survives the lines in between, no chunk line enters a block, and the    *)
(* objects before and after it are two records.                            *)

C5_SplitBoundary ==
    LET n == Len(fed)
        head == FirstWith(fed, PARTIAL_BOUNDARY)
        tail == LastWith(fed, COMPLETE_BOUNDARY)
    IN  /\ pc = "gap" => accumulated_chars = plan.k
        /\ (pc = "second" /\ plan.n = 0)
             => last_result = COMPLETE_BOUNDARY /\ Len(ldap_records) = 1
        /\ \A i \in 1..Len(current_record_lines) :
              ~IsDelimiterRun(current_record_lines[i])
        /\ pc = "done"
             => returned.list =
                  <<ExpectedRecord(Raws(SubSeq(fed, 2, head - 1))),
                    ExpectedRecord(Raws(SubSeq(fed, tail + 1, n - 1)))>>

\* both objects were returned and the chunks were a timestamp and a blank
\* line apart
C5_Witness ==
    /\ pc = "done"
    /\ Len(returned.list) = 2
    /\ \E i, j \in 1..Len(fed) :
          fed[i].raw = LINE_TIMESTAMP /\ fed[j].raw = LINE_BLANK

-----------------------------------------------------------------------------
(* C6: from a detector with nothing pending, the literal fed as non-empty  *)
(* consecutive chunks gives PARTIAL_BOUNDARY for every chunk but the last, *)
(* COMPLETE_BOUNDARY for the last, and a count of 0 afterwards.            *)

C6_ChunkedBoundary ==
    run_len >= 1
    => /\ last_result = IF run_len = Len(boundary_pattern)
                        THEN COMPLETE_BOUNDARY ELSE PARTIAL_BOUNDARY
       /\ run_len = Len(boundary_pattern) => accumulated_chars = 0

\* the last of several chunks completed the literal
C6_Witness ==
    /\ run_len = Len(boundary_pattern)
    /\ Len(last_line) < Len(boundary_pattern)
    /\ last_result = COMPLETE_BOUNDARY

-----------------------------------------------------------------------------
(* C7 as claimed: a non-empty line that does not match (NOT_BOUNDARY)      *)
(* resets the accumulated count to zero.                                   *)

C7_MismatchResets ==
    [][(last_line' # <<>> /\ last_result' = NOT_BOUNDARY)
       => accumulated_chars' = 0]_vars

(* C7 as amended: a non-empty line that does not match (NOT_BOUNDARY)      *)
(* leaves the accumulated count as it was; a pending partial match stays   *)
(* pending.                                                                *)

C7_MismatchKeepsCount ==
    [][(last_line' # <<>> /\ last_result' = NOT_BOUNDARY)
       => accumulated_chars' = accumulated_chars]_vars

\* a mismatch with a partial match pending
C7_Witness ==
    /\ last_line # <<>>
    /\ last_result = NOT_BOUNDARY
    /\ accumulated_chars > 0

-----------------------------------------------------------------------------
(* C8: after every call the accumulated count s satisfies 0 <= s < N, N    *)
(* the length of the boundary literal.                                     *)

C8_CountBelowLength ==
    /\ accumulated_chars >= 0
    /\ accumulated_chars < Len(boundary_pattern)

\* the count at its largest, one short of the literal
C8_Witness ==
    /\ accumulated_chars = Len(boundary_pattern) - 1
    /\ last_result = PARTIAL_BOUNDARY

-----------------------------------------------------------------------------
(* C9: a line longer than the still-unmatched part of the literal returns  *)
(* NOT_BOUNDARY.                                                           *)

C9_OvershootNotBoundary ==
    [][Len(last_line') > Len(boundary_pattern) - accumulated_chars
       => last_result' = NOT_BOUNDARY]_vars

\* a run of delimiters too long for what is left of a pending match
C9_Witness ==
    /\ accumulated_chars > 0
    /\ last_line = Repeat(RESULT_DELIMITER, Len(last_line))
    /\ Len(last_line) > Len(boundary_pattern) - accumulated_chars
    /\ Len(last_line) < Len(boundary_pattern)
    /\ last_result = NOT_BOUNDARY

-----------------------------------------------------------------------------
(* C10: an empty line returns NOT_BOUNDARY and leaves the accumulated      *)
(* count unchanged, whatever is pending.                                   *)

C10_EmptyLine ==
    [][last_line' = <<>>
       => /\ last_result' = NOT_BOUNDARY
          /\ accumulated_chars' = accumulated_chars]_vars

\* an empty line with a partial match pending
C10_Witness ==
    /\ last_line = <<>>
    /\ last_result = NOT_BOUNDARY
    /\ accumulated_chars > 0

-----------------------------------------------------------------------------
(* C11: a line matching the end-of-output pattern closes the open block,   *)
(* if there is one, and leaves the parser waiting whatever the state was;  *)
(* the lines after it that are no boundary are kept in no block and no     *)
(* record, until the next complete boundary, which opens a block and adds  *)
(* no record.                                                              *)

\* the records of the object that came before the end of the output
C11_FirstRecords ==
    IF fed[1].result = COMPLETE_BOUNDARY /\ plan.k > 2
    THEN <<ExpectedRecord(Raws(SubSeq(fed, 2, plan.k - 1)))>>
    ELSE <<>>

C11_EndOfOutput ==
    /\ pc = "after"
         => /\ parsing_state = WAITING_FOR_LDAP_OBJECT
            /\ current_record_lines = <<>>
            /\ ldap_records = C11_FirstRecords
    /\ pc = "second"
         => /\ parsing_state = IN_LDAP_OBJECT
            /\ current_record_lines = Lines(SubSeq(fed, plan.p + 1, Len(fed)))
            /\ ldap_records = C11_FirstRecords
    /\ pc = "done"
         => returned.list =
              C11_FirstRecords \o
              <<ExpectedRecord(Raws(SubSeq(fed, plan.p + 1, Len(fed) - 1)))>>

\* an object, the end of the output, an attribute line and one more line that
\* are discarded, a second object
C11_Witness ==
    /\ pc = "done"
    /\ Len(returned.list) = 2
    /\ plan.p = plan.k + 3
    /\ IsKeyValueLine(fed[plan.k + 1].raw)
    /\ AttributeName(fed[plan.k + 1].raw) \notin DOMAIN returned.list[1]
    /\ AttributeName(fed[plan.k + 1].raw) \notin DOMAIN returned.list[2]

-----------------------------------------------------------------------------
(* C12 as claimed: every line received in a block for which the detector   *)
(* does not return COMPLETE_BOUNDARY, that is no end-of-output line and    *)
(* matches no skip pattern, is appended to the lines of the block.         *)

C12_NotCompleteAppended ==
    [][(/\ Len(fed') = Len(fed) + 1
        /\ Last(fed').op = "process_line"
        /\ parsing_state = IN_LDAP_OBJECT
        /\ Last(fed').result # COMPLETE_BOUNDARY
        /\ ~is_end_of_tool_output(Last(fed').line)
        /\ ~should_skip_line(Last(fed').line))
       => current_record_lines' = Append(current_record_lines, Last(fed').line)]_vars

(* C12 as amended: every line received in a block for which the detector   *)
(* returns NOT_BOUNDARY, that is no end-of-output line and matches no skip *)
(* pattern, is appended, stripped, after the lines the block already has;  *)
(* nothing else of the parser changes.                                     *)

C12_ContentAppended ==
    [][(/\ Len(fed') = Len(fed) + 1
        /\ Last(fed').op = "process_line"
        /\ parsing_state = IN_LDAP_OBJECT
        /\ Last(fed').result = NOT_BOUNDARY
        /\ ~is_end_of_tool_output(Last(fed').line)
        /\ ~should_skip_line(Last(fed').line))
       => /\ current_record_lines' = Append(current_record_lines, Last(fed').line)
          /\ UNCHANGED <<parsing_state, ldap_records, accumulated_chars>>]_vars

\* a second line, other than the first, was appended with a partial match
\* pending
C12_Witness ==
    /\ IsLineStep(fed)
    /\ IsContent(Last(fed))
    /\ parsing_state = IN_LDAP_OBJECT
    /\ Len(current_record_lines) = 2
    /\ current_record_lines[2] = Last(fed).line
    /\ current_record_lines[1] # current_record_lines[2]
    /\ accumulated_chars > 0

-----------------------------------------------------------------------------
(* C13: a line that matches a skip pattern, and is neither a piece of the  *)
(* boundary nor an end-of-output line, changes nothing: the state, the     *)
(* lines of the open block, the records and the pending count stay.        *)

C13_SkippedLineIgnored ==
    [][(/\ Len(fed') = Len(fed) + 1
        /\ Last(fed').op = "process_line"
        /\ Last(fed').result = NOT_BOUNDARY
        /\ ~is_end_of_tool_output(Last(fed').line)
        /\ \/ new_message_pattern(Last(fed').line)
           \/ is_received_output_line(Last(fed').line))
       => UNCHANGED <<parsing_state, current_record_lines, ldap_records,
                      accumulated_chars>>]_vars

\* 'received output:' arrived in an open block with a partial match pending
C13_Witness ==
    /\ IsLineStep(fed)
    /\ Last(fed).raw = LINE_RECEIVED
    /\ parsing_state = IN_LDAP_OBJECT
    /\ current_record_lines # <<>>
    /\ accumulated_chars > 0

-----------------------------------------------------------------------------
(* C14 as claimed: every complete boundary received while a block is open  *)
(* adds exactly one record to the parser's list of records, also when the  *)
(* block has no attribute.                                                 *)

C14_EmptyObjectCounted ==
    [][(/\ Len(fed') = Len(fed) + 1
        /\ Last(fed').op = "process_line"
        /\ Last(fed').result = COMPLETE_BOUNDARY
        /\ parsing_state = IN_LDAP_OBJECT)
       => Len(ldap_records') = Len(ldap_records) + 1]_vars

-----------------------------------------------------------------------------
(* C15 as claimed: when the value of an attribute line is interrupted by   *)
(* the lines of a tasking, with no blank line in between, the fragment     *)
(* after the interruption is joined to the value before it, and the block  *)
(* gives exactly one record.                                               *)

C15_MidSearchTaskings ==
    pc = "done"
    => /\ Len(returned.list) = 1
       /\ AttributeName(plan.line) \in DOMAIN returned.list[1]
       /\ returned.list[1][AttributeName(plan.line)] = AttributeValue(plan.line)

-----------------------------------------------------------------------------
(* C16: a call of get_results() right after a call of get_results()        *)
(* returns the same list: it adds no record and drops none.                *)

-----------------------------------------------------------------------------
(* Access-control resolution (ad/acl_worker.py, ad/acl_processor.py).      *)
(* Strings that the code takes apart or compares after a conversion (SIDs, *)
(* GUIDs, object types, distinguished names) are sequences of characters.  *)
(* The decoded security descriptor is what bloodhound.enumeration.acls     *)
(* gives to the resolvers; an access mask is the set of its bits.          *)

\* the SIDs of the code and of the inputs
SID ==
    [CREATOR_OWNER |-> \* "S-1-3-0"
         <<"S", "-", "1", "-", "3", "-", "0">>,
     LOCAL_SYSTEM |-> \* "S-1-5-18"
         <<"S", "-", "1", "-", "5", "-", "1", "8">>,
     PRINCIPAL_SELF |-> \* "S-1-5-10"
         <<"S", "-", "1", "-", "5", "-", "1", "0">>,
     ADMINISTRATORS |-> \* "S-1-5-32-544"
         <<"S", "-", "1", "-", "5", "-", "3", "2", "-", "5", "4", "4">>,
     EVERYONE |-> \* "S-1-1-0"
         <<"S", "-", "1", "-", "1", "-", "0">>,
     DOMAIN_ADMINS |-> \* "S-1-5-21-1-512"
         <<"S", "-", "1", "-", "5", "-", "2", "1", "-", "1", "-", "5", "1",
           "2">>,
     ACCOUNT |-> \* "S-1-5-21-1-1104"
         <<"S", "-", "1", "-", "5", "-", "2", "1", "-", "1", "-", "1", "1",
           "0", "4">>]

\* ignore_sids: Creator Owner, Local System, Principal Self
ignore_sids == {SID.CREATOR_OWNER, SID.LOCAL_SYSTEM, SID.PRINCIPAL_SELF}

\* ADUtils.WELLKNOWN_SIDS[sid][1]: the type of each well-known SID of the model
WELLKNOWN_SIDS ==
    [sid \in {SID.CREATOR_OWNER, SID.LOCAL_SYSTEM, SID.PRINCIPAL_SELF,
              SID.ADMINISTRATORS, SID.EVERYONE} |->
        IF sid \in {SID.ADMINISTRATORS, SID.EVERYONE}
        THEN <<"G", "R", "O", "U", "P">> ELSE <<"U", "S", "E", "R">>]

\* the object types (_entry_type) and the principal types
TYPE ==
    [User |-> \* "User"
         <<"U", "s", "e", "r">>,
     Computer |-> \* "Computer"
         <<"C", "o", "m", "p", "u", "t", "e", "r">>,
     Group |-> \* "Group"
         <<"G", "r", "o", "u", "p">>,
     Domain |-> \* "Domain"
         <<"D", "o", "m", "a", "i", "n">>,
     GPO |-> \* "GPO"
         <<"G", "P", "O">>,
     PKI_Template |-> \* "PKI Template"
         <<"P", "K", "I", " ", "T", "e", "m", "p", "l", "a", "t", "e">>,
     EnterpriseCA |-> \* "EnterpriseCA"
         <<"E", "n", "t", "e", "r", "p", "r", "i", "s", "e", "C", "A">>,
     Unknown |-> \* "Unknown"
         <<"U", "n", "k", "n", "o", "w", "n">>]

\* the literals that entry_type.lower() is compared with
LOWER ==
    [user |-> \* "user"
         <<"u", "s", "e", "r">>,
     computer |-> \* "computer"
         <<"c", "o", "m", "p", "u", "t", "e", "r">>,
     group |-> \* "group"
         <<"g", "r", "o", "u", "p">>,
     domain |-> \* "domain"
         <<"d", "o", "m", "a", "i", "n">>,
     gpo |-> \* "gpo"
         <<"g", "p", "o">>,
     pki_template |-> \* "pki template"
         <<"p", "k", "i", " ", "t", "e", "m", "p", "l", "a", "t", "e">>,
     enterpriseca |-> \* "enterpriseca"
         <<"e", "n", "t", "e", "r", "p", "r", "i", "s", "e", "c", "a">>]

\* bloodhound's EXTRIGHTS_GUID_MAPPING and the Enroll right added to it
EXTRIGHTS_GUID_MAPPING ==
    [GetChanges |-> \* "1131f6aa-9c07-11d1-f79f-00c04fc2dcd2"
         <<"1", "1", "3", "1", "f", "6", "a", "a", "-", "9", "c", "0", "7",
           "-", "1", "1", "d", "1", "-", "f", "7", "9", "f", "-", "0", "0",
           "c", "0", "4", "f", "c", "2", "d", "c", "d", "2">>,
     GetChangesAll |-> \* "1131f6ad-9c07-11d1-f79f-00c04fc2dcd2"
         <<"1", "1", "3", "1", "f", "6", "a", "d", "-", "9", "c", "0", "7",
           "-", "1", "1", "d", "1", "-", "f", "7", "9", "f", "-", "0", "0",
           "c", "0", "4", "f", "c", "2", "d", "c", "d", "2">>,
     GetChangesInFilteredSet |-> \* "89e95b76-444d-4c62-991a-0facbeda640c"
         <<"8", "9", "e", "9", "5", "b", "7", "6", "-", "4", "4", "4", "d",
           "-", "4", "c", "6", "2", "-", "9", "9", "1", "a", "-", "0", "f",
           "a", "c", "b", "e", "d", "a", "6", "4", "0", "c">>,
     WriteMember |-> \* "bf9679c0-0de6-11d0-a285-00aa003049e2"
         <<"b", "f", "9", "6", "7", "9", "c", "0", "-", "0", "d", "e", "6",
           "-", "1", "1", "d", "0", "-", "a", "2", "8", "5", "-", "0", "0",
           "a", "a", "0", "0", "3", "0", "4", "9", "e", "2">>,
     UserForceChangePassword |-> \* "00299570-246d-11d0-a768-00aa006e0529"
         <<"0", "0", "2", "9", "9", "5", "7", "0", "-", "2", "4", "6", "d",
           "-", "1", "1", "d", "0", "-", "a", "7", "6", "8", "-", "0", "0",
           "a", "a", "0", "0", "6", "e", "0", "5", "2", "9">>,
     AllowedToAct |-> \* "3f78c3e5-f79a-46bd-a0b8-9d18116ddc79"
         <<"3", "f", "7", "8", "c", "3", "e", "5", "-", "f", "7", "9", "a",
           "-", "4", "6", "b", "d", "-", "a", "0", "b", "8", "-", "9", "d",
           "1", "8", "1", "1", "6", "d", "d", "c", "7", "9">>,
     UserAccountRestrictionsSet |-> \* "4c164200-20c0-11d0-a768-00aa006e0529"
         <<"4", "c", "1", "6", "4", "2", "0", "0", "-", "2", "0", "c", "0",
           "-", "1", "1", "d", "0", "-", "a", "7", "6", "8", "-", "0", "0",
           "a", "a", "0", "0", "6", "e", "0", "5", "2", "9">>,
     Enroll |-> \* "0e10c968-78fb-11d2-90d4-00c04f79dc55"
         <<"0", "e", "1", "0", "c", "9", "6", "8", "-", "7", "8", "f", "b",
           "-", "1", "1", "d", "2", "-", "9", "0", "d", "4", "-", "0", "0",
           "c", "0", "4", "f", "7", "9", "d", "c", "5", "5">>]

\* the GUID literals of the code, and the GUIDs that the inputs register in
\* the ObjectTypeGuidMap; LAPS_AS_READ is how get_object_type() writes LAPS
GUID ==
    [WriteSPN |-> \* "f3a64788-5306-11d1-a9c5-0000f80367c1"
         <<"f", "3", "a", "6", "4", "7", "8", "8", "-", "5", "3", "0", "6",
           "-", "1", "1", "d", "1", "-", "a", "9", "c", "5", "-", "0", "0",
           "0", "0", "f", "8", "0", "3", "6", "7", "c", "1">>,
     WritePKINameFlag |-> \* "ea1dddc4-60ff-416e-8cc0-17cee534bce7"
         <<"e", "a", "1", "d", "d", "d", "c", "4", "-", "6", "0", "f", "f",
           "-", "4", "1", "6", "e", "-", "8", "c", "c", "0", "-", "1", "7",
           "c", "e", "e", "5", "3", "4", "b", "c", "e", "7">>,
     WritePKIEnrollmentFlag |-> \* "d15ef7d8-f226-46db-ae79-b34e560bd12c"
         <<"d", "1", "5", "e", "f", "7", "d", "8", "-", "f", "2", "2", "6",
           "-", "4", "6", "d", "b", "-", "a", "e", "7", "9", "-", "b", "3",
           "4", "e", "5", "6", "0", "b", "d", "1", "2", "c">>,
     LAPS |-> \* "2e4b5f4c-1c3c-4dc8-8b5f-6d5e3b1f0a11"
         <<"2", "e", "4", "b", "5", "f", "4", "c", "-", "1", "c", "3", "c",
           "-", "4", "d", "c", "8", "-", "8", "b", "5", "f", "-", "6", "d",
           "5", "e", "3", "b", "1", "f", "0", "a", "1", "1">>,
     LAPS_AS_READ |-> \* "2E4B5F4C-1C3C-4DC8-8B5F-6D5E3B1F0A11"
         <<"2", "E", "4", "B", "5", "F", "4", "C", "-", "1", "C", "3", "C",
           "-", "4", "D", "C", "8", "-", "8", "B", "5", "F", "-", "6", "D",
           "5", "E", "3", "B", "1", "F", "0", "A", "1", "1">>,
     KEY_CREDENTIAL_LINK |-> \* "5b47d60f-6090-40b2-9f37-2a4de88f3063"
         <<"5", "b", "4", "7", "d", "6", "0", "f", "-", "6", "0", "9", "0",
           "-", "4", "0", "b", "2", "-", "9", "f", "3", "7", "-", "2", "a",
           "4", "d", "e", "8", "8", "f", "3", "0", "6", "3">>,
     COMPUTER_CLASS |-> \* "bf967a86-0de6-11d0-a285-00aa003049e2"
         <<"b", "f", "9", "6", "7", "a", "8", "6", "-", "0", "d", "e", "6",
           "-", "1", "1", "d", "0", "-", "a", "2", "8", "5", "-", "0", "0",
           "a", "a", "0", "0", "3", "0", "4", "9", "e", "2">>]

\* the schema names that the code looks up in the ObjectTypeGuidMap, and
\* the distinguished name of the entries
NAME ==
    [ms_mcs_admpwd |-> \* "ms-mcs-admpwd"
         <<"m", "s", "-", "m", "c", "s", "-", "a", "d", "m", "p", "w", "d">>,
     ms_ds_key_credential_link |-> \* "ms-ds-key-credential-link"
         <<"m", "s", "-", "d", "s", "-", "k", "e", "y", "-", "c", "r", "e",
           "d", "e", "n", "t", "i", "a", "l", "-", "l", "i", "n", "k">>,
     dn |-> \* "CN=WS01,DC=ESSOS,DC=LOCAL"
         <<"C", "N", "=", "W", "S", "0", "1", ",", "D", "C", "=", "E", "S",
           "S", "O", "S", ",", "D", "C", "=", "L", "O", "C", "A", "L">>]

\* bloodhound's ACCESS_MASK: 0x000F01FF, 0x00020028, 0x00080000, 0x00040000,
\* 0x100, 0x10, 0x20, 0x08; mask.has_priv(priv) is priv \subseteq mask
ACCESS_MASK ==
    [GENERIC_ALL |-> (0..8) \cup (16..19),
     GENERIC_WRITE |-> {3, 5, 17},
     WRITE_OWNER |-> {19},
     WRITE_DACL |-> {18},
     ADS_RIGHT_DS_CONTROL_ACCESS |-> {8},
     ADS_RIGHT_DS_READ_PROP |-> {4},
     ADS_RIGHT_DS_WRITE_PROP |-> {5},
     ADS_RIGHT_DS_SELF |-> {3}]

\* the ACE flags that the code tests; ace.has_flag(flag) is flag \in ace.flags.
\* An ACE is [AceType, sid, flags, object_type, inherited_object_type, mask];
\* AceType is "0x00", "0x01" or "0x05"; an object type that is <<>> is one
\* whose PRESENT flag is not set.
ACE == [INHERITED_ACE |-> "INHERITED_ACE", INHERIT_ONLY_ACE |-> "INHERIT_ONLY_ACE"]

\* bloodhound's ace_applies, where objecttype_guid_map has the key object_class
\* (it raises KeyError where it has not)
ace_applies(ace_guid, object_class, objecttype_guid_map) ==
    ace_guid = objecttype_guid_map[object_class]

\* bloodhound's can_write_property
can_write_property(ace, binproperty) ==
    /\ ACCESS_MASK.ADS_RIGHT_DS_WRITE_PROP \subseteq ace.mask
    /\ ace.object_type = <<>> \/ Lower(ace.object_type) = binproperty

\* bloodhound's has_extended_right
has_extended_right(ace, binrightguid) ==
    /\ ACCESS_MASK.ADS_RIGHT_DS_CONTROL_ACCESS \subseteq ace.mask
    /\ ace.object_type = <<>> \/ Lower(ace.object_type) = binrightguid

\* str.title() of a single word
Title(s) ==
    [i \in 1..Len(s) |->
        IF i = 1 /\ \E k \in 1..Len(LowerCase) : LowerCase[k] = s[i]
        THEN UpperCase[CHOOSE k \in 1..Len(LowerCase) : LowerCase[k] = s[i]]
        ELSE IF i = 1 THEN s[i] ELSE LowerChar(s[i])]

\* _get_domain_component
get_domain_component(dn) ==
    LET upper(s) ==
            [i \in 1..Len(s) |->
                IF \E k \in 1..Len(LowerCase) : LowerCase[k] = s[i]
                THEN UpperCase[CHOOSE k \in 1..Len(LowerCase) : LowerCase[k] = s[i]]
                ELSE s[i]]
        RECURSIVE split(_)
        split(s) ==
            IF \E i \in 1..Len(s) : s[i] = ","
            THEN LET c == CHOOSE i \in 1..Len(s) :
                              s[i] = "," /\ \A j \in 1..(i - 1) : s[j] # ","
                 IN  <<SubSeq(s, 1, c - 1)>> \o split(SubSeq(s, c + 1, Len(s)))
            ELSE <<s>>
        RECURSIVE join(_)
        join(parts) ==
            IF parts = <<>> THEN <<>>
            ELSE IF Len(parts) = 1 THEN parts[1]
            ELSE parts[1] \o <<",">> \o join(Tail(parts))
        dc_parts == SelectSeq(split(upper(dn)),
                              LAMBDA part : StartsWith(part, <<"D", "C", "=">>))
    IN  join(dc_parts)

\* _get_sid
get_sid(sid, dn, domain_map) ==
    LET RECURSIVE replace(_, _, _)
        replace(s, old, new) ==
            IF Len(s) < Len(old) THEN s
            ELSE IF StartsWith(s, old)
                 THEN new \o replace(SubSeq(s, Len(old) + 1, Len(s)), old, new)
                 ELSE <<s[1]>> \o replace(Tail(s), old, new)
        dc == get_domain_component(dn)
    IN  IF sid \in DOMAIN WELLKNOWN_SIDS
        THEN replace(replace(dc, <<",", "D", "C", "=">>, <<".">>),
                     <<"D", "C", "=">>, <<>>)
             \o <<"-">> \o sid
        ELSE sid

\* _build_relation
build_relation(entry_dn, entry_type, sid, relation, inherited, sid_map, domain_map) ==
    [RightName |-> relation,
     PrincipalSID |-> get_sid(sid, entry_dn, domain_map),
     IsInherited |-> inherited,
     PrincipalType |-> IF sid \in DOMAIN sid_map THEN sid_map[sid]
                       ELSE IF sid \in DOMAIN WELLKNOWN_SIDS
                            THEN Title(WELLKNOWN_SIDS[sid])
                            ELSE TYPE.Unknown]

-----------------------------------------------------------------------------
(* acl_worker.py, parse_acl_standalone: the rights one ACE gives.  Each    *)
(* operator gives the RightNames in the order the code appends them.       *)

\* relations.append(...) under a condition
Opt(condition, name) == IF condition THEN <<name>> ELSE <<>>

\* mutant: the LAPS check does not look at has_laps
generic_all_relations_ungated(ace, entry_type, has_laps, object_type_guid_map) ==
    IF /\ Lower(entry_type) = LOWER.computer
       /\ ace.object_type # <<>>
       /\ NAME.ms_mcs_admpwd \in DOMAIN object_type_guid_map
    THEN Opt(Lower(ace.object_type) = object_type_guid_map[NAME.ms_mcs_admpwd],
             "ReadLAPSPassword")
    ELSE <<"GenericAll">>

\* the GENERIC_ALL branch of an ACCESS_ALLOWED_OBJECT_ACE
generic_all_relations(ace, entry_type, has_laps, object_type_guid_map) ==
    IF /\ Lower(entry_type) = LOWER.computer
       /\ ace.object_type # <<>>
       /\ has_laps
       /\ NAME.ms_mcs_admpwd \in DOMAIN object_type_guid_map
    THEN Opt(Lower(ace.object_type) = object_type_guid_map[NAME.ms_mcs_admpwd],
             "ReadLAPSPassword")
    ELSE <<"GenericAll">>

\* the property write privileges of an ACCESS_ALLOWED_OBJECT_ACE
write_property_relations(ace, entry_type, object_type_guid_map) ==
    LET et == Lower(entry_type)
        sid == ace.sid
        present == ace.object_type # <<>>
        object_type == Lower(ace.object_type)
        ends_512 == /\ Len(sid) >= 4
                    /\ SubSeq(sid, Len(sid) - 3, Len(sid)) = <<"-", "5", "1", "2">>
    IN  Opt(/\ et \in {LOWER.user, LOWER.group, LOWER.computer, LOWER.gpo}
            /\ ~present, "GenericWrite")
        \o Opt(/\ et = LOWER.group
               /\ can_write_property(ace, EXTRIGHTS_GUID_MAPPING.WriteMember),
               "AddMember")
        \o Opt(/\ et = LOWER.computer
               /\ can_write_property(ace, EXTRIGHTS_GUID_MAPPING.AllowedToAct),
               "AddAllowedToAct")
        \o Opt(/\ et = LOWER.computer
               /\ can_write_property(ace,
                      EXTRIGHTS_GUID_MAPPING.UserAccountRestrictionsSet)
               /\ ~ends_512,
               "WriteAccountRestrictions")
        \o Opt(/\ et \in {LOWER.user, LOWER.computer}
               /\ present
               /\ NAME.ms_ds_key_credential_link \in DOMAIN object_type_guid_map
               /\ object_type = object_type_guid_map[NAME.ms_ds_key_credential_link],
               "AddKeyCredentialLink")
        \o Opt(et = LOWER.user /\ present /\ object_type = GUID.WriteSPN,
               "WriteSPN")
        \o Opt(/\ et = LOWER.pki_template
               /\ present
               /\ object_type = GUID.WritePKINameFlag,
               "WritePKINameFlag")
        \o Opt(/\ et = LOWER.pki_template
               /\ present
               /\ object_type = GUID.WritePKIEnrollmentFlag,
               "WritePKIEnrollmentFlag")

\* the extended rights of an ACCESS_ALLOWED_OBJECT_ACE
extended_right_relations(ace, entry_type) ==
    LET et == Lower(entry_type)
        present == ace.object_type # <<>>
    IN  IF ~(ACCESS_MASK.ADS_RIGHT_DS_CONTROL_ACCESS \subseteq ace.mask) THEN <<>>
        ELSE Opt(et \in {LOWER.user, LOWER.domain} /\ ~present, "AllExtendedRights")
             \o Opt(et = LOWER.computer /\ ~present, "AllExtendedRights")
             \o Opt(/\ et = LOWER.domain
                    /\ has_extended_right(ace, EXTRIGHTS_GUID_MAPPING.GetChanges),
                    "GetChanges")
             \o Opt(/\ et = LOWER.domain
                    /\ has_extended_right(ace, EXTRIGHTS_GUID_MAPPING.GetChangesAll),
                    "GetChangesAll")
             \o Opt(/\ et = LOWER.domain
                    /\ has_extended_right(ace,
                           EXTRIGHTS_GUID_MAPPING.GetChangesInFilteredSet),
                    "GetChangesInFilteredSet")
             \o Opt(/\ et = LOWER.user
                    /\ has_extended_right(ace,
                           EXTRIGHTS_GUID_MAPPING.UserForceChangePassword),
                    "ForceChangePassword")
             \o Opt(/\ et \in {LOWER.pki_template, LOWER.enterpriseca}
                    /\ has_extended_right(ace, EXTRIGHTS_GUID_MAPPING.Enroll),
                    "Enroll")

\* the body of the loop for an ACCESS_ALLOWED_OBJECT_ACE (AceType 0x05)
object_ace_relations(ace, entry_type, has_laps, object_type_guid_map) ==
    LET et == Lower(entry_type)
        mask == ace.mask
        has_priv(priv) == priv \subseteq mask
        inherited == ACE.INHERITED_ACE \in ace.flags
        inherit_only == ~inherited /\ ACE.INHERIT_ONLY_ACE \in ace.flags
        other_type ==
            /\ inherited
            /\ ace.inherited_object_type # <<>>
            /\ entry_type \in DOMAIN object_type_guid_map
            /\ ~ace_applies(Lower(ace.inherited_object_type), entry_type,
                            object_type_guid_map)
        generic == \/ has_priv(ACCESS_MASK.GENERIC_ALL)
                   \/ has_priv(ACCESS_MASK.WRITE_DACL)
                   \/ has_priv(ACCESS_MASK.WRITE_OWNER)
                   \/ has_priv(ACCESS_MASK.GENERIC_WRITE)
        not_applicable ==
            /\ generic
            /\ ace.object_type # <<>>
            /\ entry_type \in DOMAIN object_type_guid_map
            /\ ~ace_applies(Lower(ace.object_type), entry_type,
                            object_type_guid_map)
        self == Opt(/\ et = LOWER.group
                    /\ ace.object_type # <<>>
                    /\ Lower(ace.object_type) = EXTRIGHTS_GUID_MAPPING.WriteMember,
                    "AddSelf")
        read == Opt(/\ has_priv(ACCESS_MASK.ADS_RIGHT_DS_READ_PROP)
                    /\ et = LOWER.computer
                    /\ ace.object_type # <<>>
                    /\ has_laps
                    /\ NAME.ms_mcs_admpwd \in DOMAIN object_type_guid_map
                    /\ Lower(ace.object_type)
                          = object_type_guid_map[NAME.ms_mcs_admpwd],
                    "ReadLAPSPassword")
        rest == (IF has_priv(ACCESS_MASK.ADS_RIGHT_DS_WRITE_PROP)
                 THEN write_property_relations(ace, entry_type, object_type_guid_map)
                 ELSE IF has_priv(ACCESS_MASK.ADS_RIGHT_DS_SELF) THEN self
                      ELSE <<>>)
                \o read
                \o extended_right_relations(ace, entry_type)
    IN  IF inherit_only \/ other_type \/ not_applicable THEN <<>>
        ELSE IF ~generic THEN rest
        ELSE IF has_priv(ACCESS_MASK.GENERIC_ALL)
             THEN generic_all_relations(ace, entry_type, has_laps,
                                        object_type_guid_map)
        ELSE IF /\ has_priv(ACCESS_MASK.GENERIC_WRITE)
                /\ et \notin {LOWER.domain, LOWER.computer}
             THEN <<"GenericWrite">>
        ELSE Opt(has_priv(ACCESS_MASK.GENERIC_WRITE), "GenericWrite")
             \o Opt(has_priv(ACCESS_MASK.WRITE_DACL), "WriteDacl")
             \o Opt(has_priv(ACCESS_MASK.WRITE_OWNER), "WriteOwner")
             \o rest

\* the body of the loop for an ACCESS_ALLOWED_ACE (AceType 0x00)
allowed_ace_relations(ace, entry_type) ==
    LET et == Lower(entry_type)
        sid == ace.sid
        has_priv(priv) == priv \subseteq ace.mask
        ends_512 == /\ Len(sid) >= 4
                    /\ SubSeq(sid, Len(sid) - 3, Len(sid)) = <<"-", "5", "1", "2">>
    IN  IF ACE.INHERITED_ACE \notin ace.flags /\ ACE.INHERIT_ONLY_ACE \in ace.flags
        THEN <<>>
        ELSE IF has_priv(ACCESS_MASK.GENERIC_ALL) THEN <<"GenericAll">>
        ELSE Opt(/\ has_priv(ACCESS_MASK.ADS_RIGHT_DS_WRITE_PROP)
                 /\ et \in {LOWER.user, LOWER.group, LOWER.computer, LOWER.gpo},
                 "GenericWrite")
             \o Opt(has_priv(ACCESS_MASK.WRITE_OWNER), "WriteOwner")
             \o Opt(/\ et \in {LOWER.user, LOWER.domain}
                    /\ has_priv(ACCESS_MASK.ADS_RIGHT_DS_CONTROL_ACCESS),
                    "AllExtendedRights")
             \o Opt(/\ et = LOWER.computer
                    /\ has_priv(ACCESS_MASK.ADS_RIGHT_DS_CONTROL_ACCESS)
                    /\ sid # SID.ADMINISTRATORS
                    /\ ~ends_512,
                    "AllExtendedRights")
             \o Opt(has_priv(ACCESS_MASK.WRITE_DACL), "WriteDacl")

\* one iteration of the loop over sd.dacl.aces: the RightNames the ACE gives
ace_relations(ace, entry_type, has_laps, object_type_guid_map) ==
    IF ace.AceType \notin {"0x05", "0x00"} THEN <<>>
    ELSE IF ace.sid \in ignore_sids THEN <<>>
    ELSE IF ace.AceType = "0x05"
         THEN object_ace_relations(ace, entry_type, has_laps, object_type_guid_map)
         ELSE allowed_ace_relations(ace, entry_type)

-----------------------------------------------------------------------------
(* The two resolvers.  A RawAces blob is [kind, sd]: kind says what        *)
(* decoding it gives ("none": None or an empty string; "bad_base64":       *)
(* b64decode raises; "empty_value": b64decode gives no bytes;              *)
(* "bad_descriptor": SecurityDescriptor(...) raises; "descriptor": it      *)
(* gives the descriptor sd = [PD, owner_sid, has_dacl, aces]).             *)

\* the sd field of a blob that gives no descriptor
NoDescriptor == [PD |-> FALSE, owner_sid |-> <<>>, has_dacl |-> FALSE, aces |-> <<>>]

\* what a resolver returns; raised is TRUE where the call raises instead
Result(raised, object_id, relations, is_acl_protected) ==
    [raised |-> raised, object_id |-> object_id, relations |-> relations,
     is_acl_protected |-> is_acl_protected]

RECURSIVE dacl_relations(_, _, _)
\* parse_acl_standalone: the loop over sd.dacl.aces
dacl_relations(aces, entry, ctx) ==
    IF aces = <<>> THEN <<>>
    ELSE LET ace == Head(aces)
             names == ace_relations(ace, entry.entry_type, entry.has_laps,
                                    ctx.object_type_guid_map)
         IN  [i \in 1..Len(names) |->
                 build_relation(entry.dn, entry.entry_type, ace.sid, names[i],
                                ACE.INHERITED_ACE \in ace.flags,
                                ctx.sid_map, ctx.domain_map)]
             \o dacl_relations(Tail(aces), entry, ctx)

\* acl_worker.parse_acl_standalone
parse_acl_standalone(entry, ctx) ==
    LET raw_aces == entry.raw_aces
        sd == raw_aces.sd
        owner == IF sd.owner_sid \notin ignore_sids
                 THEN <<build_relation(entry.dn, entry.entry_type, sd.owner_sid,
                                       "Owns", FALSE, ctx.sid_map, ctx.domain_map)>>
                 ELSE <<>>
    IN  IF raw_aces.kind \in {"none", "bad_base64", "empty_value"}
        THEN Result(FALSE, entry.object_id, <<>>, FALSE)
        ELSE IF raw_aces.kind = "bad_descriptor" \/ ~sd.has_dacl
        THEN Result(TRUE, entry.object_id, <<>>, FALSE)
        ELSE Result(FALSE, entry.object_id,
                    owner \o dacl_relations(sd.aces, entry, ctx), sd.PD)

\* parse_acl_for_object: one relationship
processor_relation(name, sid, inherited, ctx) ==
    [RightName |-> name, PrincipalSID |-> sid, IsInherited |-> inherited,
     PrincipalType |-> IF sid \in DOMAIN WELLKNOWN_SIDS
                       THEN Title(WELLKNOWN_SIDS[sid])
                       ELSE IF sid \in DOMAIN ctx.sid_map THEN ctx.sid_map[sid]
                       ELSE TYPE.Unknown]

RECURSIVE processor_dacl_relations(_, _)
\* parse_acl_for_object: the loop over sd.dacl.aces
processor_dacl_relations(aces, ctx) ==
    IF aces = <<>> THEN <<>>
    ELSE LET ace == Head(aces)
             inherited == ACE.INHERITED_ACE \in ace.flags
             right(priv, name) ==
                 IF priv \subseteq ace.mask
                 THEN <<processor_relation(name, ace.sid, inherited, ctx)>>
                 ELSE <<>>
         IN  (IF ace.sid \in ignore_sids THEN <<>>
              ELSE right(ACCESS_MASK.GENERIC_ALL, "GenericAll")
                   \o right(ACCESS_MASK.WRITE_DACL, "WriteDacl")
                   \o right(ACCESS_MASK.WRITE_OWNER, "WriteOwner"))
             \o processor_dacl_relations(Tail(aces), ctx)

\* acl_processor.parse_acl_for_object; num_relations, the fourth element of
\* its result, is the length of the list
parse_acl_for_object(entry, ctx) ==
    LET raw_aces == entry.raw_aces
        sd == raw_aces.sd
        owner == IF sd.owner_sid \notin ignore_sids
                 THEN <<processor_relation("Owner", sd.owner_sid, FALSE, ctx)>>
                 ELSE <<>>
    IN  IF raw_aces.kind # "descriptor"
        THEN Result(FALSE, entry.object_id, <<>>, FALSE)
        ELSE IF ~sd.has_dacl THEN Result(FALSE, entry.object_id, owner, sd.PD)
        ELSE Result(FALSE, entry.object_id,
                    owner \o processor_dacl_relations(sd.aces, ctx), sd.PD)

-----------------------------------------------------------------------------
(* Resolving one entry (SpecAcl) *)

\* the longest DACL of a decoded descriptor
MaxAces == 1

\* the ACEs of the decoded descriptors: an object type is part of an
\* ACCESS_ALLOWED_OBJECT_ACE only
AceSet ==
    [AceType : {"0x05"}, sid : {SID.LOCAL_SYSTEM, SID.DOMAIN_ADMINS},
     flags : {{}, {ACE.INHERITED_ACE}}, object_type : {<<>>, GUID.LAPS_AS_READ},
     inherited_object_type : {<<>>},
     mask : {ACCESS_MASK.GENERIC_ALL, ACCESS_MASK.WRITE_DACL}]
    \cup
    [AceType : {"0x00", "0x01"}, sid : {SID.LOCAL_SYSTEM, SID.DOMAIN_ADMINS},
     flags : {{}, {ACE.INHERITED_ACE}}, object_type : {<<>>},
     inherited_object_type : {<<>>},
     mask : {ACCESS_MASK.GENERIC_ALL, ACCESS_MASK.WRITE_DACL}]

\* the RawAces blobs: the ones that give no descriptor, and the descriptors
\* with a DACL of at most MaxAces ACEs or without a DACL
RawAcesSet ==
    [kind : {"none", "bad_base64", "empty_value", "bad_descriptor"},
     sd : {NoDescriptor}]
    \cup
    [kind : {"descriptor"},
     sd : [PD : BOOLEAN, owner_sid : {SID.LOCAL_SYSTEM, SID.DOMAIN_ADMINS},
           has_dacl : {TRUE}, aces : UNION {[1..k -> AceSet] : k \in 0..MaxAces}]
          \cup
          [PD : BOOLEAN, owner_sid : {SID.LOCAL_SYSTEM, SID.DOMAIN_ADMINS},
           has_dacl : {FALSE}, aces : {<<>>}]]

\* the entries handed to a resolver
Entries ==
    [object_id : {SID.ACCOUNT}, entry_type : {TYPE.Computer, TYPE.User},
     dn : {NAME.dn}, raw_aces : RawAcesSet, has_laps : BOOLEAN]

\* the lookup contexts.  sid_map: empty, or knowing the domain admins group;
\* object_type_guid_map: empty, with the LAPS attribute, or with the LAPS
\* attribute and the class of the entry
Contexts ==
    [sid_map : {[sid \in {} |-> TYPE.Unknown],
                [sid \in {SID.DOMAIN_ADMINS} |-> TYPE.Group]},
     domain_map : {[dc \in {} |-> <<>>]},
     object_type_guid_map :
        {[name \in {} |-> <<>>],
         [name \in {NAME.ms_mcs_admpwd} |-> GUID.LAPS],
         [name \in {NAME.ms_mcs_admpwd, TYPE.Computer} |->
            IF name = TYPE.Computer THEN GUID.COMPUTER_CLASS ELSE GUID.LAPS]}]

\* no resolver has run
NoOutcome == [by |-> "none", result |-> Result(FALSE, <<>>, <<>>, FALSE)]

\* the parser is not part of the resolution
IdleParser ==
    /\ parsing_state = NewParser.parsing_state
    /\ current_record_lines = NewParser.current_record_lines
    /\ ldap_records = NewParser.ldap_records
    /\ accumulated_chars = NewParser.accumulated_chars
    /\ returned = NotReturned
    /\ last_line = <<>>
    /\ last_result = "none"
    /\ run_len = 0
    /\ fed = <<>>
    /\ plan = NoPlan

InitAcl ==
    /\ IdleParser
    /\ IdleRun
    /\ pc = "resolve"
    /\ entry_data \in Entries
    /\ context \in Contexts
    /\ outcome = NoOutcome
    /\ dispatcher = [phase |-> "none"]

\* a call of acl_worker.parse_acl_standalone(entry_data, context)
WorkerResolve ==
    /\ pc = "resolve"
    /\ outcome' = [by |-> "parse_acl_standalone",
                   result |-> parse_acl_standalone(entry_data, context)]
    /\ pc' = "done"
    /\ UNCHANGED <<parser_vars, run_vars, entry_data, context, dispatcher>>

\* a call of acl_processor.parse_acl_for_object(obj_data, context)
ProcessorResolve ==
    /\ pc = "resolve"
    /\ outcome' = [by |-> "parse_acl_for_object",
                   result |-> parse_acl_for_object(entry_data, context)]
    /\ pc' = "done"
    /\ UNCHANGED <<parser_vars, run_vars, entry_data, context, dispatcher>>

NextAcl ==
    \/ WorkerResolve
    \/ ProcessorResolve

SpecAcl == InitAcl /\ [][NextAcl]_vars

-----------------------------------------------------------------------------
(* acl_processor.py: process_acls_parallel (SpecPool).  Object identifiers *)
(* are only used as dictionary keys, so the model numbers them.            *)

\* the most worker processes of a pool
MaxWorkers == 2

\* the most kinds of object that a batch is made of
MaxTemplates == 2

\* len(obj_data_list) < 100: below this the objects are resolved in sequence
POOL_THRESHOLD == 100

\* the batches: count objects, the i-th with RawAces template[i mod k] and
\* ObjectIdentifier i, except that with dup the last object has the
\* identifier of the first.  The RawAces are absent, not base64, or a
\* protected descriptor with an owner and one GENERIC_ALL ACE.
Batches ==
    LET sd == [PD |-> TRUE, owner_sid |-> SID.DOMAIN_ADMINS, has_dacl |-> TRUE,
               aces |-> <<[AceType |-> "0x00", sid |-> SID.DOMAIN_ADMINS,
                           flags |-> {}, object_type |-> <<>>,
                           inherited_object_type |-> <<>>,
                           mask |-> ACCESS_MASK.GENERIC_ALL]>>]
        raws == {[kind |-> "none", sd |-> NoDescriptor],
                 [kind |-> "bad_base64", sd |-> NoDescriptor],
                 [kind |-> "descriptor", sd |-> sd]}
    IN  {[i \in 1..count |->
            [object_id |-> IF dup /\ i = count THEN 1 ELSE i,
             entry_type |-> TYPE.User,
             dn |-> NAME.dn,
             raw_aces |-> template[((i - 1) % Len(template)) + 1],
             has_laps |-> FALSE]] :
         template \in UNION {[1..k -> raws] : k \in 1..MaxTemplates},
         count \in {POOL_THRESHOLD - 1, POOL_THRESHOLD},
         dup \in BOOLEAN}

\* obj_data_list: the objects whose RawAces is not empty
obj_data_list(objects) ==
    SelectSeq(objects, LAMBDA obj : obj.raw_aces.kind # "none")

\* the loop results[obj_id] = (aces, is_protected, num_rels) over a list of
\* results: each identifier is left with its last result of the list
build_results(list) ==
    LET ids == {list[i].object_id : i \in DOMAIN list}
        last(id) == CHOOSE i \in DOMAIN list :
                        /\ list[i].object_id = id
                        /\ \A j \in DOMAIN list : list[j].object_id = id => j <= i
    IN  [id \in ids |->
            [aces |-> list[last(id)].relations,
             is_protected |-> list[last(id)].is_acl_protected,
             num_rels |-> Len(list[last(id)].relations)]]

\* mutant: a worker keeps the relations of the first object it resolved and
\* gives them to every object after it
map_parse_remembers(list, ctx) ==
    [i \in 1..Len(list) |->
        [parse_acl_for_object(list[i], ctx) EXCEPT
            !.relations = parse_acl_for_object(list[1], ctx).relations]]

\* parse_acl_for_object for each element of a list
map_parse(list, ctx) ==
    [i \in 1..Len(list) |-> parse_acl_for_object(list[i], ctx)]

\* the sequential path: the loop over obj_data_list
sequential_results(list, ctx) == build_results(map_parse(list, ctx))

\* Pool.map: the chunk size for count tasks and a pool of workers processes
pool_chunksize(count, workers) ==
    LET q == count \div (workers * 4)
    IN  IF count % (workers * 4) # 0 THEN q + 1 ELSE q

\* mutant: the tasks after the last full chunk are lost
chunk_count_floor(count, chunksize) == count \div chunksize

\* Pool.map: the number of chunks
chunk_count(count, chunksize) == (count + chunksize - 1) \div chunksize

\* Pool.map: the c-th chunk of the tasks
chunk(list, chunksize, c) ==
    LET last == IF c * chunksize < Len(list) THEN c * chunksize ELSE Len(list)
    IN  SubSeq(list, (c - 1) * chunksize + 1, last)

\* the chunk size and the number of chunks of the pool of the dispatcher
PoolChunks ==
    LET count == Len(obj_data_list(dispatcher.objects))
        chunksize == pool_chunksize(count, dispatcher.num_workers)
    IN  [chunksize |-> chunksize, count |-> chunk_count(count, chunksize)]

\* no object is being resolved on its own
NoEntry ==
    [object_id |-> <<>>, entry_type |-> TYPE.Unknown, dn |-> <<>>,
     raw_aces |-> [kind |-> "none", sd |-> NoDescriptor], has_laps |-> FALSE]

InitPool ==
    /\ IdleParser
    /\ IdleRun
    /\ pc = "dispatch"
    /\ entry_data = NoEntry
    /\ context \in {c \in Contexts : DOMAIN c.object_type_guid_map = {}}
    /\ outcome = NoOutcome
    /\ \E objects \in Batches, num_workers \in 1..MaxWorkers :
          dispatcher = [phase |-> "start", path |-> "none", objects |-> objects,
                        num_workers |-> num_workers, next |-> 0, held |-> {},
                        chunk_results |-> <<>>, results |-> <<>>]

\* no object has RawAces: the empty dictionary is returned
ReturnEmpty ==
    /\ dispatcher.phase = "start"
    /\ obj_data_list(dispatcher.objects) = <<>>
    /\ dispatcher' = [dispatcher EXCEPT !.phase = "done", !.path = "empty"]
    /\ UNCHANGED <<parser_vars, run_vars, pc, entry_data, context, outcome>>

\* the sequential path
RunSequential ==
    LET list == obj_data_list(dispatcher.objects)
    IN  /\ dispatcher.phase = "start"
        /\ list # <<>>
        /\ Len(list) < POOL_THRESHOLD \/ dispatcher.num_workers = 1
        /\ dispatcher' = [dispatcher EXCEPT
                            !.phase = "done", !.path = "sequential",
                            !.results = sequential_results(list, context)]
        /\ UNCHANGED <<parser_vars, run_vars, pc, entry_data, context, outcome>>

\* the pool is opened and pool.map queues the chunks
OpenPool ==
    LET list == obj_data_list(dispatcher.objects)
    IN  /\ dispatcher.phase = "start"
        /\ list # <<>>
        /\ ~(Len(list) < POOL_THRESHOLD \/ dispatcher.num_workers = 1)
        /\ dispatcher' = [dispatcher EXCEPT !.phase = "pool", !.path = "pool",
                                            !.next = 1]
        /\ UNCHANGED <<parser_vars, run_vars, pc, entry_data, context, outcome>>

\* a worker of the pool that holds no chunk takes the next chunk of the
\* queue; held is the set of the chunks that workers hold
WorkerTake ==
    /\ dispatcher.phase = "pool"
    /\ Cardinality(dispatcher.held) < dispatcher.num_workers
    /\ dispatcher.next <= PoolChunks.count
    /\ dispatcher' = [dispatcher EXCEPT !.held = dispatcher.held \cup {dispatcher.next},
                                        !.next = dispatcher.next + 1]
    /\ UNCHANGED <<parser_vars, run_vars, pc, entry_data, context, outcome>>

\* a worker has resolved the objects of chunk c and hands the results back
WorkerFinish(c) ==
    LET list == obj_data_list(dispatcher.objects)
        done == dispatcher.chunk_results
    IN  /\ dispatcher.phase = "pool"
        /\ c \in dispatcher.held
        /\ dispatcher' = [dispatcher EXCEPT
                            !.held = dispatcher.held \ {c},
                            !.chunk_results =
                                [d \in DOMAIN done \cup {c} |->
                                    IF d = c
                                    THEN map_parse(chunk(list, PoolChunks.chunksize, c),
                                                   context)
                                    ELSE done[d]]]
        /\ UNCHANGED <<parser_vars, run_vars, pc, entry_data, context, outcome>>

\* pool.map returns the results of the chunks in the order of the tasks, and
\* the loop builds the dictionary
MapReturns ==
    LET RECURSIVE concat(_)
        concat(c) == IF c > PoolChunks.count THEN <<>>
                     ELSE dispatcher.chunk_results[c] \o concat(c + 1)
    IN  /\ dispatcher.phase = "pool"
        /\ DOMAIN dispatcher.chunk_results = 1..PoolChunks.count
        /\ dispatcher' = [dispatcher EXCEPT !.phase = "done",
                                            !.results = build_results(concat(1))]
        /\ UNCHANGED <<parser_vars, run_vars, pc, entry_data, context, outcome>>

NextPool ==
    \/ ReturnEmpty
    \/ RunSequential
    \/ OpenPool
    \/ WorkerTake
    \/ \E c \in dispatcher.held : WorkerFinish(c)
    \/ MapReturns

SpecPool == InitPool /\ [][NextPool]_vars

-----------------------------------------------------------------------------
(* Claims about access-control resolution *)

\* a resolver has returned a result for a descriptor that decoded
Resolved ==
    /\ pc = "done"
    /\ entry_data.raw_aces.kind = "descriptor"
    /\ ~outcome.result.raised

\* the relationships of the result that are named name
Named(name) ==
    SelectSeq(outcome.result.relations, LAMBDA r : r.RightName = name)

\* C17: for every object type, a result for an owner SID of the ignore set
\* has no relationship named 'Owns'; for any other owner SID it has exactly
\* one relationship named 'Owns', for the owner SID and not inherited.  This
\* is stated of both resolvers; parse_acl_for_object names the relationship
\* 'Owner', so the statement fails there.
C17_OwnerFiltering ==
    Resolved =>
        LET owner == entry_data.raw_aces.sd.owner_sid
            owns == Named("Owns")
        IN  IF owner \in ignore_sids THEN owns = <<>>
            ELSE /\ Len(owns) = 1
                 /\ owns[1].PrincipalSID
                        \in {owner, get_sid(owner, entry_data.dn, context.domain_map)}
                 /\ owns[1].IsInherited = FALSE

\* a non-ignored ACCESS_ALLOWED_OBJECT ACE with GENERIC_ALL that applies to
\* the entry and whose object type is the registered 'ms-mcs-admpwd' GUID
IsLapsAce(ace) ==
    LET map == context.object_type_guid_map
    IN  /\ ace.AceType = "0x05"
        /\ ace.sid \notin ignore_sids
        /\ ACCESS_MASK.GENERIC_ALL \subseteq ace.mask
        /\ ACE.INHERIT_ONLY_ACE \in ace.flags => ACE.INHERITED_ACE \in ace.flags
        /\ ace.inherited_object_type = <<>>
        /\ ace.object_type # <<>>
        /\ NAME.ms_mcs_admpwd \in DOMAIN map
        /\ Lower(ace.object_type) = map[NAME.ms_mcs_admpwd]
        /\ entry_data.entry_type \in DOMAIN map
              => map[entry_data.entry_type] = Lower(ace.object_type)

\* parse_acl_standalone has resolved a Computer whose DACL is made of such ACEs
LapsCase ==
    LET aces == entry_data.raw_aces.sd.aces
    IN  /\ Resolved
        /\ outcome.by = "parse_acl_standalone"
        /\ entry_data.entry_type = TYPE.Computer
        /\ aces # <<>>
        /\ \A i \in DOMAIN aces : IsLapsAce(aces[i])

\* C18: for a Computer whose DACL is made of non-ignored, applicable
\* ACCESS_ALLOWED_OBJECT ACEs with GENERIC_ALL on the registered
\* 'ms-mcs-admpwd' GUID, parse_acl_standalone emits one ReadLAPSPassword per
\* ACE and no GenericAll when has_laps is true, and one GenericAll per ACE
\* and no ReadLAPSPassword when has_laps is false.
C18_LapsGating ==
    LapsCase =>
        LET n == Len(entry_data.raw_aces.sd.aces)
        IN  IF entry_data.has_laps
            THEN /\ Len(Named("ReadLAPSPassword")) = n
                 /\ Named("GenericAll") = <<>>
            ELSE /\ Len(Named("GenericAll")) = n
                 /\ Named("ReadLAPSPassword") = <<>>

\* a Computer with LAPS whose LAPS ACE gave ReadLAPSPassword
C18_Witness ==
    /\ LapsCase
    /\ entry_data.has_laps
    /\ Named("ReadLAPSPassword") # <<>>

C20_FailureIsolation ==
    (pc = "done" /\ entry_data.raw_aces.kind \in {"bad_base64", "bad_descriptor"}) =>
        /\ ~outcome.result.raised
        /\ outcome.result.relations = <<>>
        /\ outcome.result.is_acl_protected = FALSE

\* C21: the map returned by process_acls_parallel has an entry for every
\* input object; an object whose RawAces is absent or empty maps to an empty
\* relationship list and not-protected.  The code leaves such objects out of
\* obj_data_list, so the statement fails.
C21_DispatcherTotality ==
    dispatcher.phase = "done" =>
        \A i \in DOMAIN dispatcher.objects :
            LET obj == dispatcher.objects[i]
            IN  /\ obj.object_id \in DOMAIN dispatcher.results
                /\ (\A j \in DOMAIN dispatcher.objects :
                        dispatcher.objects[j].object_id = obj.object_id => j = i)
                   /\ obj.raw_aces.kind = "none"
                   => /\ dispatcher.results[obj.object_id].aces = <<>>
                      /\ dispatcher.results[obj.object_id].is_protected = FALSE

-----------------------------------------------------------------------------
(* cache.py: ObjectCache, and the part of main() that opens it (SpecCache). *)
(* The objects table is a set of rows with the columns the cache reads      *)
(* back: sid, dn and attr_hash.  An MD5 digest stands for the string it     *)
(* digests.                                                                 *)

\* a < b as Python orders strings of letters: by code point, a proper prefix
\* first
RECURSIVE StrLess(_, _)
StrLess(a, b) ==
    LET Ord(c) == IF \E i \in 1..Len(UpperCase) : UpperCase[i] = c
                  THEN CHOOSE i \in 1..Len(UpperCase) : UpperCase[i] = c
                  ELSE IF \E i \in 1..Len(LowerCase) : LowerCase[i] = c
                  THEN Len(UpperCase)
                       + (CHOOSE i \in 1..Len(LowerCase) : LowerCase[i] = c)
                  ELSE 0
    IN  IF a = <<>> THEN b # <<>>
        ELSE IF b = <<>> THEN FALSE
        ELSE IF a[1] # b[1] THEN Ord(a[1]) < Ord(b[1])
        ELSE StrLess(Tail(a), Tail(b))

\* sorted(keys) of a set of strings
RECURSIVE sorted(_)
sorted(keys) ==
    IF keys = {} THEN <<>>
    ELSE LET first == CHOOSE k \in keys : \A o \in keys \ {k} : StrLess(k, o)
         IN  <<first>> \o sorted(keys \ {first})

CACHE_VERSION == "1.1.0"

\* the attribute names of the modelled objects
ATTR ==
    [objectsid |-> <<"o", "b", "j", "e", "c", "t", "s", "i", "d">>,
     distinguishedname |->
        <<"d", "i", "s", "t", "i", "n", "g", "u", "i", "s", "h", "e", "d", "n", "a", "m", "e">>,
     description |-> <<"d", "e", "s", "c", "r", "i", "p", "t", "i", "o", "n">>,
     LastLogon |-> <<"L", "a", "s", "t", "L", "o", "g", "o", "n">>]

exclude_attrs ==
    {<<"w", "h", "e", "n", "c", "r", "e", "a", "t", "e", "d">>,
     <<"w", "h", "e", "n", "c", "h", "a", "n", "g", "e", "d">>,
     <<"u", "s", "n", "c", "h", "a", "n", "g", "e", "d">>,
     <<"u", "s", "n", "c", "r", "e", "a", "t", "e", "d">>,
     <<"d", "s", "c", "o", "r", "e", "p", "r", "o", "p", "a", "g", "a", "t", "i", "o", "n", "d", "a", "t", "a">>,
     <<"l", "a", "s", "t", "l", "o", "g", "o", "n">>,
     <<"l", "a", "s", "t", "l", "o", "g", "o", "n", "t", "i", "m", "e", "s", "t", "a", "m", "p">>,
     <<"b", "a", "d", "p", "a", "s", "s", "w", "o", "r", "d", "t", "i", "m", "e">>,
     <<"l", "o", "g", "o", "n", "c", "o", "u", "n", "t">>}

\* dict.get(key, '')
Get(obj, key) == IF key \in DOMAIN obj THEN obj[key] ELSE <<>>

\* ObjectCache._hash_object without key.lower(): the test is on the key as
\* it is spelt
hash_object_cased(obj) ==
    LET RECURSIVE join(_)
        join(keys) ==
            IF keys = <<>> THEN <<>>
            ELSE IF Len(keys) = 1 THEN keys[1] \o <<":">> \o obj[keys[1]]
            ELSE keys[1] \o <<":">> \o obj[keys[1]] \o <<"|">> \o join(Tail(keys))
    IN  join(SelectSeq(sorted(DOMAIN obj), LAMBDA key : key \notin exclude_attrs))

\* ObjectCache._hash_object: the string that is digested
hash_object(obj) ==
    LET RECURSIVE join(_)
        join(keys) ==
            IF keys = <<>> THEN <<>>
            ELSE IF Len(keys) = 1 THEN keys[1] \o <<":">> \o obj[keys[1]]
            ELSE keys[1] \o <<":">> \o obj[keys[1]] \o <<"|">> \o join(Tail(keys))
    IN  join(SelectSeq(sorted(DOMAIN obj),
                       LAMBDA key : Lower(key) \notin exclude_attrs))

\* ObjectCache.get_cached_object: the rows fetchone() may return, none when
\* it returns None
get_cached_object(objects, sid, dn) ==
    IF sid # <<>> /\ dn # <<>> THEN {r \in objects : r.sid = sid /\ r.dn = dn}
    ELSE IF sid # <<>> THEN {r \in objects : r.sid = sid}
    ELSE IF dn # <<>> THEN {r \in objects : r.dn = dn}
    ELSE {}

\* ObjectCache.store_object with INSERT in place of INSERT OR REPLACE and no
\* primary key
store_object_insert(objects, obj) ==
    objects \cup {[sid |-> obj.ObjectIdentifier,
                   dn |-> Get(obj.Properties, ATTR.distinguishedname),
                   attr_hash |-> hash_object(obj.Properties)]}

\* ObjectCache.store_object: the objects table after INSERT OR REPLACE under
\* PRIMARY KEY (sid, dn).  ObjectIdentifier is '' for an object without one
store_object(objects, obj) ==
    LET sid == obj.ObjectIdentifier
        dn == Get(obj.Properties, ATTR.distinguishedname)
    IN  {r \in objects : ~(r.sid = sid /\ r.dn = dn)}
        \cup {[sid |-> sid, dn |-> dn,
               attr_hash |-> hash_object(obj.Properties)]}

\* str.upper()
Upper(s) ==
    LET UpperChar(c) ==
            IF \E i \in 1..Len(LowerCase) : LowerCase[i] = c
            THEN UpperCase[CHOOSE i \in 1..Len(LowerCase) : LowerCase[i] = c]
            ELSE c
    IN  [i \in 1..Len(s) |-> UpperChar(s[i])]

\* ObjectCache.get_changed_objects: new_hash is computed and not used
get_changed_objects(objects, ldap_objects) ==
    LET cached(ldap_obj) ==
            get_cached_object(objects, Get(ldap_obj, ATTR.objectsid),
                              Upper(Get(ldap_obj, ATTR.distinguishedname)))
    IN  SelectSeq(ldap_objects, LAMBDA ldap_obj : cached(ldap_obj) = {})

\* the most store_object calls of a run, and the longest list given to
\* get_changed_objects
MaxStores == 1
MaxBatch == 1

VALUE ==
    [sid |-> <<"S", "-", "1">>, dn |-> <<"C", "N", "=", "A">>,
     dn_lower |-> <<"c", "n", "=", "a">>, x |-> <<"x">>, y |-> <<"y">>,
     t |-> <<"1">>]

\* the raw LDAP objects: a description, and possibly an objectsid, a
\* distinguishedname in either case and a last-logon attribute
LdapObjects ==
    LET values(key) ==
            CASE key = ATTR.objectsid -> {VALUE.sid}
              [] key = ATTR.distinguishedname -> {VALUE.dn, VALUE.dn_lower}
              [] key = ATTR.description -> {VALUE.x, VALUE.y}
              [] key = ATTR.LastLogon -> {VALUE.t}
        all == {VALUE.sid, VALUE.dn, VALUE.dn_lower, VALUE.x, VALUE.y, VALUE.t}
        key_sets == {keys \in SUBSET {ATTR.objectsid, ATTR.distinguishedname,
                                      ATTR.description, ATTR.LastLogon} :
                        ATTR.description \in keys}
    IN  UNION {{obj \in [keys -> all] : \A k \in keys : obj[k] \in values(k)} :
               keys \in key_sets}

\* the processed objects given to store_object: the identifier is the
\* objectsid, '' without one, and the distinguished name is in upper case
BloodHoundObjects ==
    {[ObjectIdentifier |-> Get(p, ATTR.objectsid), Properties |-> p] :
        p \in {o \in LdapObjects :
                  Get(o, ATTR.distinguishedname) # VALUE.dn_lower}}

\* the row an earlier run has left in an existing cache file
OldRow ==
    [sid |-> VALUE.sid, dn |-> VALUE.dn,
     attr_hash |-> hash_object([key \in {ATTR.objectsid, ATTR.distinguishedname,
                                         ATTR.description} |->
                                   IF key = ATTR.objectsid THEN VALUE.sid
                                   ELSE IF key = ATTR.description THEN VALUE.x
                                   ELSE VALUE.dn])]

\* no get_changed_objects call has read the table as it is now
NotCalled == [called |-> FALSE, ldap_objects |-> <<>>, result |-> <<>>]

\* the options of the run (--no-cache, --cache-file) and the cache file: absent
\* or left by an earlier run of this or of an older version, and whether it
\* can be opened or created
InitCache ==
    /\ IdleParser
    /\ pc = "cache"
    /\ entry_data = "none"
    /\ context = "none"
    /\ outcome = "none"
    /\ dispatcher = "none"
    /\ data_source = "none"
    /\ pipeline = "none"
    /\ changed = NotCalled
    /\ run \in [no_cache : BOOLEAN, cache_file : {"None", "custom.db"},
                phase : {"start"}]
    /\ \E file \in [exists : {FALSE}, cache_version : {"absent"}, objects : {{}}]
                   \cup [exists : {TRUE}, cache_version : {"1.0.0", CACHE_VERSION},
                         objects : {{OldRow}}],
          openable \in BOOLEAN :
          cache = [exists |-> file.exists, openable |-> openable, conn |-> FALSE,
                   cache_version |-> file.cache_version,
                   found_version |-> "absent", found_objects |-> {},
                   objects |-> file.objects, last_stored |-> {}, stores |-> 0]

\* main(): "Initialize cache", with ObjectCache.__init__ and _init_database
InitializeCache ==
    /\ run.phase = "start"
    /\ IF run.no_cache
       THEN /\ run' = [run EXCEPT !.phase = "running"]
            /\ UNCHANGED cache
       ELSE IF ~cache.openable
       THEN /\ run' = [run EXCEPT !.phase = "exit(1)"]
            /\ UNCHANGED cache
       ELSE /\ run' = [run EXCEPT !.phase = "running"]
            /\ cache' = [cache EXCEPT !.exists = TRUE, !.conn = TRUE,
                                      !.found_version = cache.cache_version,
                                      !.found_objects = cache.objects,
                                      !.cache_version = CACHE_VERSION]
    /\ UNCHANGED <<parser_vars, acl_vars, pc, changed, data_source, pipeline>>

\* a call of ObjectCache.store_object
StoreObject ==
    /\ cache.conn
    /\ cache.stores < MaxStores
    /\ \E obj \in BloodHoundObjects :
          cache' = [cache EXCEPT !.objects = store_object(cache.objects, obj),
                                 !.last_stored = store_object({}, obj),
                                 !.stores = cache.stores + 1]
    /\ changed' = NotCalled
    /\ UNCHANGED <<parser_vars, acl_vars, pc, run, data_source, pipeline>>

\* a call of ObjectCache.get_changed_objects, one for each content of the
\* table
GetChangedObjects ==
    /\ cache.conn
    /\ ~changed.called
    /\ \E ldap_objects \in UNION {[1..n -> LdapObjects] : n \in 0..MaxBatch} :
          changed' = [called |-> TRUE, ldap_objects |-> ldap_objects,
                      result |-> get_changed_objects(cache.objects, ldap_objects)]
    /\ UNCHANGED <<parser_vars, acl_vars, pc, cache, run, data_source, pipeline>>

NextCache ==
    \/ InitializeCache
    \/ StoreObject
    \/ GetChangedObjects

SpecCache == InitCache /\ [][NextCache]_vars

-----------------------------------------------------------------------------
(* Claims about the cache *)

\* the rows of the table under the identifier and the upper-cased DN of
\* ldap_obj
StoredFor(ldap_obj) ==
    {r \in cache.objects :
        /\ r.sid = Get(ldap_obj, ATTR.objectsid)
        /\ r.dn = Upper(Get(ldap_obj, ATTR.distinguishedname))}

Returned(ldap_obj) ==
    \E j \in DOMAIN changed.result : changed.result[j] = ldap_obj

\* C22: once an object is stored, get_changed_objects returns a raw LDAP
\* object with the same identifier and DN whenever its fingerprint differs
\* from the stored fingerprint.  The code computes the fingerprint of the raw
\* object and never compares it, so the statement fails.
C22_ChangeDetection ==
    changed.called =>
        \A i \in DOMAIN changed.ldap_objects :
            LET ldap_obj == changed.ldap_objects[i]
            IN  (\E r \in StoredFor(ldap_obj) :
                    r.attr_hash # hash_object(ldap_obj))
                => Returned(ldap_obj)

\* a and b differ only in volatile attributes
SameButVolatile(a, b) ==
    LET kept(obj) == {k \in DOMAIN obj : Lower(k) \notin exclude_attrs}
    IN  /\ kept(a) = kept(b)
        /\ \A k \in kept(a) : a[k] = b[k]

\* two attribute maps that differ only in volatile attributes have the same
\* fingerprint
FingerprintIgnoresVolatile ==
    \A a, b \in LdapObjects :
        SameButVolatile(a, b) => hash_object(a) = hash_object(b)

\* C23: once an object with an identifier or a DN is stored under (S, D),
\* get_changed_objects does not return a raw LDAP object with objectsid S and
\* upper-cased DN D whose fingerprint is the stored one, that is, whose
\* attributes are unchanged or differ only in volatile attributes; and two
\* attribute maps that differ only in volatile attributes have the same
\* fingerprint.
C23_FingerprintIdempotence ==
    /\ FingerprintIgnoresVolatile
    /\ changed.called =>
           \A i \in DOMAIN changed.ldap_objects :
               LET ldap_obj == changed.ldap_objects[i]
               IN  (/\ \E r \in StoredFor(ldap_obj) :
                           r.attr_hash = hash_object(ldap_obj)
                    /\ \/ Get(ldap_obj, ATTR.objectsid) # <<>>
                       \/ Get(ldap_obj, ATTR.distinguishedname) # <<>>)
                   => ~Returned(ldap_obj)

\* a stored object was submitted again with a last-logon attribute it did
\* not have when it was stored, and was filtered out
C23_Witness ==
    /\ changed.called
    /\ \E i \in DOMAIN changed.ldap_objects :
          LET ldap_obj == changed.ldap_objects[i]
          IN  /\ ATTR.LastLogon \in DOMAIN ldap_obj
              /\ Get(ldap_obj, ATTR.objectsid) # <<>>
              /\ \E r \in StoredFor(ldap_obj) :
                    /\ r \in cache.last_stored
                    /\ r.attr_hash = hash_object(ldap_obj)
              /\ ~Returned(ldap_obj)

\* C24: the objects table holds at most one row per (sid, dn); a step
\* changes the row of at most one key, the one store_object writes, which
\* then holds the row written; no step removes a key, so the number of rows
\* never decreases.
C24_RecordLifecycle ==
    [][/\ \A r1, r2 \in cache'.objects :
              (r1.sid = r2.sid /\ r1.dn = r2.dn) => r1 = r2
       /\ \A r \in cache.objects :
              \/ r \in cache'.objects
              \/ /\ cache'.stores = cache.stores + 1
                 /\ \E w \in cache'.last_stored : w.sid = r.sid /\ w.dn = r.dn
       /\ cache'.last_stored \subseteq cache'.objects
       /\ Cardinality(cache'.objects) >= Cardinality(cache.objects)]_vars

\* store_object has replaced the row an earlier run had left
C24_Witness ==
    /\ cache.found_objects = {OldRow}
    /\ cache.stores = 1
    /\ cache.objects = cache.last_stored
    /\ cache.objects # {OldRow}

\* C25: a cache file whose version marker differs from CACHE_VERSION is
\* rejected when it is opened.  _init_database overwrites the marker without
\* reading it, so the statement fails.
C25_SchemaVersioning ==
    cache.conn => cache.found_version \in {"absent", CACHE_VERSION}

\* C26: when the cache file cannot be opened or created, the run is aborted
\* only if caching was explicitly requested (--cache-file); with the default
\* options the run goes on without a cache.  main() exits whenever the cache
\* is not disabled, so the statement fails.
C26_CacheUnavailable ==
    /\ run.phase = "exit(1)" => run.cache_file # "None"
    /\ (/\ run.phase # "start"
        /\ ~cache.openable
        /\ ~run.no_cache
        /\ run.cache_file = "None")
       => (run.phase = "running" /\ ~cache.conn)

-----------------------------------------------------------------------------
(* parsers/data_sources.py: FileDataSource.get_data_streams (SpecSource) *)

\* the most files of the input directory that match the pattern
MaxFiles == 3

\* the latest modification time
MaxMtime == 2

FileNames == <<<<"a">>, <<"b">>, <<"c">>, <<"d">>, <<"e">>>>

\* list.sort(key=mtime): ascending, and stable
RECURSIVE list_sort(_, _)
list_sort(files, mtime) ==
    IF files = <<>> THEN <<>>
    ELSE LET head == list_sort(SubSeq(files, 1, Len(files) - 1), mtime)
             last == files[Len(files)]
             keep == {i \in 1..Len(head) : mtime[head[i]] <= mtime[last]}
         IN  SubSeq(head, 1, Cardinality(keep)) \o <<last>>
             \o SubSeq(head, Cardinality(keep) + 1, Len(head))

\* the input path: a file, a missing path, or a directory whose matching
\* files have modification times and are enumerated by glob in the order of
\* the file system
InitSource ==
    /\ IdleParser
    /\ pc = "source"
    /\ entry_data = "none"
    /\ context = "none"
    /\ outcome = "none"
    /\ dispatcher = "none"
    /\ cache = "none"
    /\ changed = "none"
    /\ run = "none"
    /\ pipeline = "none"
    /\ \E kind \in {"file", "dir", "missing"},
          names \in SUBSET {FileNames[i] : i \in 1..MaxFiles} :
          \E mtime \in [names -> 1..MaxMtime],
             glob \in [1..Cardinality(names) -> names] :
             /\ \A i, j \in DOMAIN glob : glob[i] = glob[j] => i = j
             /\ kind # "dir" => names = {}
             /\ data_source = [kind |-> kind, mtime |-> mtime, glob |-> glob,
                               phase |-> "new", streams |-> <<>>]

\* the generator get_data_streams(), run to its end
GetDataStreams ==
    /\ data_source.phase = "new"
    /\ data_source' =
          IF data_source.kind = "file"
          THEN [data_source EXCEPT !.phase = "yielded",
                                   !.streams = <<<<"i", "n">>>>]
          ELSE IF data_source.kind = "dir"
          THEN [data_source EXCEPT !.phase = "yielded",
                   !.streams = list_sort(data_source.glob, data_source.mtime)]
          ELSE [data_source EXCEPT !.phase = "ValueError"]
    /\ UNCHANGED <<parser_vars, acl_vars, pc, cache, changed, run, pipeline>>

NextSource == GetDataStreams

SpecSource == InitSource /\ [][NextSource]_vars

\* C27: for a directory the streams are the matching files in ascending
\* modification time, files of the same modification time in ascending path
\* order, whatever order glob enumerated them in.  The sort key is the
\* modification time alone, so files of the same time stay in glob's order
\* and the statement fails.
C27_StreamOrder ==
    (data_source.phase = "yielded" /\ data_source.kind = "dir") =>
        LET streams == data_source.streams
            mtime == data_source.mtime
        IN  /\ Len(streams) = Len(data_source.glob)
            /\ {streams[i] : i \in DOMAIN streams} = DOMAIN mtime
            /\ \A i, j \in DOMAIN streams :
                  i < j => \/ mtime[streams[i]] < mtime[streams[j]]
                           \/ /\ mtime[streams[i]] = mtime[streams[j]]
                              /\ StrLess(streams[i], streams[j])

-----------------------------------------------------------------------------
(* parse_acl_standalone on a DACL of one ACE (SpecAce): the rules for the  *)
(* mask bits of an ACE.                                                    *)

\* the ACEs of the rules: ACCESS_ALLOWED_OBJECT ACEs with generic, validated
\* write, property write and extended right masks, with and without an
\* object type, and plain ACCESS_ALLOWED ACEs; for the domain admins, the
\* built-in administrators, an account and the ignored local system
RuleAces ==
    [AceType : {"0x05"},
     sid : {SID.DOMAIN_ADMINS, SID.ADMINISTRATORS, SID.ACCOUNT, SID.LOCAL_SYSTEM},
     flags : {{}, {ACE.INHERITED_ACE}},
     object_type : {<<>>, EXTRIGHTS_GUID_MAPPING.WriteMember, GUID.LAPS,
                    GUID.COMPUTER_CLASS},
     inherited_object_type : {<<>>},
     mask : {ACCESS_MASK.GENERIC_ALL, ACCESS_MASK.ADS_RIGHT_DS_SELF,
             ACCESS_MASK.ADS_RIGHT_DS_WRITE_PROP,
             ACCESS_MASK.ADS_RIGHT_DS_SELF \cup ACCESS_MASK.ADS_RIGHT_DS_WRITE_PROP,
             ACCESS_MASK.ADS_RIGHT_DS_CONTROL_ACCESS}]
    \cup
    [AceType : {"0x00"},
     sid : {SID.DOMAIN_ADMINS, SID.ADMINISTRATORS, SID.ACCOUNT, SID.LOCAL_SYSTEM},
     flags : {{}, {ACE.INHERITED_ACE}}, object_type : {<<>>},
     inherited_object_type : {<<>>},
     mask : {ACCESS_MASK.GENERIC_ALL, ACCESS_MASK.ADS_RIGHT_DS_CONTROL_ACCESS}]

InitAce ==
    /\ IdleParser
    /\ IdleRun
    /\ pc = "resolve"
    /\ \E ace \in RuleAces,
          entry_type \in {TYPE.Computer, TYPE.Group, TYPE.User},
          has_laps \in BOOLEAN :
          entry_data =
             [object_id |-> SID.ACCOUNT, entry_type |-> entry_type,
              dn |-> NAME.dn, has_laps |-> has_laps,
              raw_aces |-> [kind |-> "descriptor",
                            sd |-> [PD |-> FALSE, owner_sid |-> SID.LOCAL_SYSTEM,
                                    has_dacl |-> TRUE, aces |-> <<ace>>]]]
    /\ context \in {c \in Contexts : DOMAIN c.sid_map = {}}
    /\ outcome = NoOutcome
    /\ dispatcher = [phase |-> "none"]

NextAce == WorkerResolve

SpecAce == InitAce /\ [][NextAce]_vars

\* the ACE of the DACL
TheAce == entry_data.raw_aces.sd.aces[1]

\* the RightNames of the result, in order
RightNames ==
    [i \in DOMAIN outcome.result.relations |->
        outcome.result.relations[i].RightName]

\* parse_acl_standalone has resolved an entry whose ACE is an
\* ACCESS_ALLOWED_OBJECT ACE that is not ignored and not inherit-only
ProcessedObjectAce ==
    /\ pc = "done"
    /\ outcome.by = "parse_acl_standalone"
    /\ TheAce.AceType = "0x05"
    /\ TheAce.sid \notin ignore_sids
    /\ ACE.INHERIT_ONLY_ACE \in TheAce.flags => ACE.INHERITED_ACE \in TheAce.flags

\* C28: a processed ACCESS_ALLOWED_OBJECT ACE with GENERIC_ALL that applies
\* to the entry gives exactly one relationship: ReadLAPSPassword for a
\* Computer with LAPS when the object type is present and is the
\* 'ms-mcs-admpwd' GUID, GenericAll in every other case.  For a Computer with
\* LAPS and an object type that is another GUID the code appends nothing, so
\* the statement fails.
C28_GenericAllRule ==
    LET map == context.object_type_guid_map
        applies == \/ TheAce.object_type = <<>>
                   \/ entry_data.entry_type \notin DOMAIN map
                   \/ map[entry_data.entry_type] = Lower(TheAce.object_type)
        laps == /\ entry_data.entry_type = TYPE.Computer
                /\ TheAce.object_type # <<>>
                /\ entry_data.has_laps
                /\ NAME.ms_mcs_admpwd \in DOMAIN map
                /\ Lower(TheAce.object_type) = map[NAME.ms_mcs_admpwd]
    IN  (/\ ProcessedObjectAce
         /\ ACCESS_MASK.GENERIC_ALL \subseteq TheAce.mask
         /\ applies)
        => RightNames = IF laps THEN <<"ReadLAPSPassword">> ELSE <<"GenericAll">>

\* C29: for a Group, a processed ACCESS_ALLOWED_OBJECT ACE with DS_SELF and
\* the WriteMember GUID as object type gives AddSelf whatever the other mask
\* bits are, and AddMember as well when DS_WRITE_PROP is set.  The DS_SELF
\* test is the elif of the DS_WRITE_PROP test, so with both bits AddSelf is
\* not given and the statement fails.
C29_AddSelfRule ==
    (/\ ProcessedObjectAce
     /\ entry_data.entry_type = TYPE.Group
     /\ ACCESS_MASK.ADS_RIGHT_DS_SELF \subseteq TheAce.mask
     /\ TheAce.object_type = EXTRIGHTS_GUID_MAPPING.WriteMember)
    => /\ \E i \in DOMAIN RightNames : RightNames[i] = "AddSelf"
       /\ ACCESS_MASK.ADS_RIGHT_DS_WRITE_PROP \subseteq TheAce.mask
             => \E i \in DOMAIN RightNames : RightNames[i] = "AddMember"

\* C30: on a Computer, an ACCESS_ALLOWED_OBJECT ACE with DS_CONTROL_ACCESS
\* and no object type gives AllExtendedRights only to a principal that is not
\* S-1-5-32-544 and whose SID does not end in -512, as the plain
\* ACCESS_ALLOWED rule does.  The object ACE rule has no such test, so the
\* statement fails.
C30_ComputerExtendedRights ==
    (/\ ProcessedObjectAce
     /\ entry_data.entry_type = TYPE.Computer
     /\ ACCESS_MASK.ADS_RIGHT_DS_CONTROL_ACCESS \subseteq TheAce.mask
     /\ TheAce.object_type = <<>>
     /\ \E i \in DOMAIN RightNames : RightNames[i] = "AllExtendedRights")
    => /\ TheAce.sid # SID.ADMINISTRATORS
       /\ SubSeq(TheAce.sid, Len(TheAce.sid) - 3, Len(TheAce.sid))
              # <<"-", "5", "1", "2">>

-----------------------------------------------------------------------------
(* Claims about the filtering of ACEs and the principal types *)

\* an ACE that gives no relationship: neither ACCESS_ALLOWED nor
\* ACCESS_ALLOWED_OBJECT, for a SID of the ignore set, or INHERIT_ONLY
\* without INHERITED
SkippedAce(ace) ==
    \/ ace.AceType \notin {"0x00", "0x05"}
    \/ ace.sid \in ignore_sids
    \/ ACE.INHERIT_ONLY_ACE \in ace.flags /\ ACE.INHERITED_ACE \notin ace.flags

\* what the resolver that ran gives for the entry with the DACL aces
ResolvedWith(aces) ==
    LET entry == [entry_data EXCEPT !.raw_aces.sd.aces = aces]
    IN  IF outcome.by = "parse_acl_standalone"
        THEN parse_acl_standalone(entry, context).relations
        ELSE parse_acl_for_object(entry, context).relations

\* C31: the relationships of a result are the owner relationship, if any,
\* followed in ACE encounter order by the relationships of the ACEs that are
\* ACCESS_ALLOWED or ACCESS_ALLOWED_OBJECT, not for an ignored SID and not
\* INHERIT_ONLY without INHERITED; every other ACE gives nothing.  This is
\* stated of both resolvers; parse_acl_for_object looks at no ACE type, so
\* the statement fails there.
C31_AceFiltering ==
    (Resolved /\ entry_data.raw_aces.sd.has_dacl) =>
        LET aces == entry_data.raw_aces.sd.aces
            owner == ResolvedWith(<<>>)
            RECURSIVE expected(_)
            expected(i) ==
                IF i > Len(aces) THEN <<>>
                ELSE (IF SkippedAce(aces[i]) THEN <<>>
                      ELSE SubSeq(ResolvedWith(<<aces[i]>>), Len(owner) + 1,
                                  Len(ResolvedWith(<<aces[i]>>))))
                     \o expected(i + 1)
        IN  outcome.result.relations = owner \o expected(1)

-----------------------------------------------------------------------------
(* The principal of a relationship (SpecPrincipal): both resolvers on a    *)
(* descriptor with an owner and one ACCESS_ALLOWED ACE, with lookup        *)
(* contexts that know well-known SIDs under another type.                  *)

InitPrincipal ==
    /\ IdleParser
    /\ IdleRun
    /\ pc = "resolve"
    /\ \E ace \in [AceType : {"0x00"},
                   sid : {SID.ADMINISTRATORS, SID.EVERYONE, SID.DOMAIN_ADMINS,
                          SID.ACCOUNT},
                   flags : {{}, {ACE.INHERITED_ACE}}, object_type : {<<>>},
                   inherited_object_type : {<<>>},
                   mask : {ACCESS_MASK.GENERIC_ALL, ACCESS_MASK.WRITE_DACL}],
          owner_sid \in {SID.ADMINISTRATORS, SID.ACCOUNT, SID.LOCAL_SYSTEM},
          entry_type \in {TYPE.Computer, TYPE.User} :
          entry_data =
             [object_id |-> SID.ACCOUNT, entry_type |-> entry_type,
              dn |-> NAME.dn, has_laps |-> FALSE,
              raw_aces |-> [kind |-> "descriptor",
                            sd |-> [PD |-> FALSE, owner_sid |-> owner_sid,
                                    has_dacl |-> TRUE, aces |-> <<ace>>]]]
    /\ \E known \in SUBSET {SID.ADMINISTRATORS, SID.DOMAIN_ADMINS} :
          \E sid_map \in [known -> {TYPE.Group, TYPE.Unknown}] :
             context = [sid_map |-> sid_map, domain_map |-> [dc \in {} |-> <<>>],
                        object_type_guid_map |-> [name \in {} |-> <<>>]]
    /\ outcome = NoOutcome
    /\ dispatcher = [phase |-> "none"]

SpecPrincipal == InitPrincipal /\ [][NextAcl]_vars

\* C32: the PrincipalType of every relationship is the entry of the sid map
\* when the SID is in it, otherwise the type of the well-known-SID table when
\* the SID is well-known, otherwise 'Unknown'.  This is stated of both
\* resolvers; parse_acl_for_object lets the well-known table override the sid
\* map, so the statement fails there.
C32_PrincipalType ==
    Resolved =>
        LET sd == entry_data.raw_aces.sd
            type(sid) == IF sid \in DOMAIN context.sid_map THEN context.sid_map[sid]
                         ELSE IF sid \in DOMAIN WELLKNOWN_SIDS
                              THEN Title(WELLKNOWN_SIDS[sid])
                              ELSE TYPE.Unknown
        IN  \A i \in DOMAIN outcome.result.relations :
               LET r == outcome.result.relations[i]
               IN  \E sid \in {sd.owner_sid} \cup {sd.aces[j].sid : j \in DOMAIN sd.aces} :
                      /\ r.PrincipalSID
                            \in {sid, get_sid(sid, entry_data.dn, context.domain_map)}
                      /\ r.PrincipalType = type(sid)

-----------------------------------------------------------------------------
\* ParsingPipeline.process_data_source over the files of a FileDataSource
\* (parsing_pipeline.py).  Only the LDAP parser of the pipeline is followed.

MaxStreams == 2
MaxFileLines == 2

\* the lines a log file is written from
FileLines == {boundary_pattern, LINE_KV2}

FileContents == UNION {[1..n -> FileLines] : n \in 0..MaxFileLines}

\* a file that cannot be read (open() or the decoding raises) has no content
FileStreams ==
    [lines : FileContents, readable : {TRUE}]
        \cup {[lines |-> <<>>, readable |-> FALSE]}

\* for line in ...: parser.process_line(line)
RECURSIVE feed_lines(_, _)
feed_lines(p, lines) ==
    IF lines = <<>> THEN p
    ELSE feed_lines(process_line(p, Head(lines)), Tail(lines))

RECURSIVE all_lines(_)
all_lines(files) ==
    IF files = <<>> THEN <<>> ELSE Head(files).lines \o all_lines(Tail(files))

FileError == [raised |-> TRUE, ldap |-> <<>>]

\* _process_sequential and _process_sequential_files: the registered parser
\* sees the lines of every file in turn, get_results is called once at the end
process_sequential(files) ==
    IF \E i \in DOMAIN files : ~files[i].readable THEN FileError
    ELSE [raised |-> FALSE,
          ldap |-> get_results(feed_lines(NewParser,
                                          all_lines(files))).ldap_records]

\* _worker_parse_file: fresh parsers, one file, get_results at its end
worker_parse_file(file) ==
    IF ~file.readable THEN FileError
    ELSE [raised |-> FALSE,
          ldap |-> get_results(feed_lines(NewParser, file.lines)).ldap_records]

merge_future_aborts(result, worker_result) ==
    IF worker_result.raised THEN <<>> ELSE result \o worker_result.ldap

\* the body of the as_completed loop: future.result() either gives the
\* worker's objects, which are added, or raises, which is logged
merge_future(result, worker_result) ==
    IF worker_result.raised THEN result ELSE result \o worker_result.ldap

Max(a, b) == IF a > b THEN a ELSE b
Min(a, b) == IF a < b THEN a ELSE b

\* num_workers = 0 stands for None: the count is then taken from the CPUs
InitFiles ==
    /\ IdleParser
    /\ pc = "files"
    /\ entry_data = "none"
    /\ context = "none"
    /\ outcome = "none"
    /\ dispatcher = "none"
    /\ cache = "none"
    /\ changed = "none"
    /\ run = "none"
    /\ data_source = "none"
    /\ \E n \in 1..MaxStreams :
          \E files \in [1..n -> FileStreams], num_workers \in 0..MaxWorkers,
             cpu_count \in {1, 3} :
             /\ num_workers # 0 => cpu_count = 1
             /\ pipeline = [files |-> files, num_workers |-> num_workers,
                            cpu_count |-> cpu_count, phase |-> "new",
                            path |-> "none", workers |-> 0, next |-> 1,
                            running |-> {}, completed |-> 0, logged |-> {},
                            result |-> <<>>]

\* process_data_source up to the point where the pool is started, or to its
\* return when the files are parsed one after another
ProcessDataSource ==
    /\ pipeline.phase = "new"
    /\ LET n == Len(pipeline.files)
           auto == Max(1, (pipeline.cpu_count * 9) \div 10)
           num_workers == Min(IF pipeline.num_workers = 0 THEN auto
                              ELSE pipeline.num_workers, n)
           seq == process_sequential(pipeline.files)
       IN  pipeline' =
             IF pipeline.num_workers # 1 /\ n > 1 /\ num_workers # 1
             THEN [pipeline EXCEPT !.phase = "pool", !.path = "parallel",
                                   !.workers = num_workers]
             ELSE [pipeline EXCEPT !.phase = IF seq.raised THEN "raised"
                                             ELSE "done",
                                   !.path = "sequential",
                                   !.result = seq.ldap]
    /\ UNCHANGED <<parser_vars, acl_vars, pc, cache, changed, run, data_source>>

\* a free worker process takes the next submitted file
WorkerStart ==
    /\ pipeline.phase = "pool"
    /\ pipeline.next <= Len(pipeline.files)
    /\ Cardinality(pipeline.running) < pipeline.workers
    /\ pipeline' = [pipeline EXCEPT !.running = @ \cup {pipeline.next},
                                    !.next = @ + 1]
    /\ UNCHANGED <<parser_vars, acl_vars, pc, cache, changed, run, data_source>>

\* a worker finishes its file and as_completed hands the future to the loop
FutureCompleted ==
    /\ pipeline.phase = "pool"
    /\ \E i \in pipeline.running :
          LET worker_result == worker_parse_file(pipeline.files[i])
              completed == pipeline.completed + 1
          IN  pipeline' =
                [pipeline EXCEPT
                    !.running = @ \ {i},
                    !.completed = completed,
                    !.logged = IF worker_result.raised THEN @ \cup {i} ELSE @,
                    !.result = merge_future(@, worker_result),
                    !.phase = IF completed = Len(pipeline.files) THEN "done"
                              ELSE @]
    /\ UNCHANGED <<parser_vars, acl_vars, pc, cache, changed, run, data_source>>

NextFiles == ProcessDataSource \/ WorkerStart \/ FutureCompleted

SpecFiles == InitFiles /\ [][NextFiles]_vars

Count(list, x) == Cardinality({i \in DOMAIN list : list[i] = x})

SameMultiset(a, b) ==
    /\ Len(a) = Len(b)
    /\ \A i \in DOMAIN a : Count(a, a[i]) = Count(b, a[i])

\* C33: with every file readable, the records returned by the parallel path
\* are, as a multiset, the records the sequential path returns for the same
\* files.
C33_ParallelEqualsSequential ==
    (/\ pipeline.phase = "done"
     /\ pipeline.path = "parallel"
     /\ \A i \in DOMAIN pipeline.files : pipeline.files[i].readable)
    => SameMultiset(pipeline.result, process_sequential(pipeline.files).ldap)

-----------------------------------------------------------------------------
\* C34: while a partial match of k > 0 characters is pending, a line equal to
\* the whole boundary literal is reported NOT_BOUNDARY and leaves the count at
\* k; the parser takes it for content: it is appended to the open block, or
\* dropped while waiting, and no record is closed and no block is opened.
C34_StalePartialMatch ==
    [][(/\ accumulated_chars > 0
        /\ fed' # fed
        /\ fed'[Len(fed')].op = "process_line"
        /\ fed'[Len(fed')].line = boundary_pattern)
       => /\ fed'[Len(fed')].result = NOT_BOUNDARY
          /\ accumulated_chars' = accumulated_chars
          /\ parsing_state' = parsing_state
          /\ ldap_records' = ldap_records
          /\ current_record_lines' =
                IF parsing_state = IN_LDAP_OBJECT
                THEN Append(current_record_lines, boundary_pattern)
                ELSE current_record_lines]_vars

\* an open block holding an attribute line, then half a boundary, then a whole
\* boundary line, which has become a line of the block
C34_Witness ==
    /\ Len(fed) >= 3
    /\ fed[Len(fed) - 1].line = LINE_HALF
    /\ fed[Len(fed) - 1].result = PARTIAL_BOUNDARY
    /\ fed[Len(fed)].line = boundary_pattern
    /\ fed[Len(fed)].result = NOT_BOUNDARY
    /\ accumulated_chars = Len(LINE_HALF)
    /\ parsing_state = IN_LDAP_OBJECT
    /\ Len(current_record_lines) = 2
    /\ current_record_lines[2] = boundary_pattern
    /\ ldap_records = <<>>

-----------------------------------------------------------------------------
\* C35: right after get_results the parser holds no stored record and is in
\* WAITING_FOR_LDAP_OBJECT.
C35_GetResultsResets ==
    (fed # <<>> /\ fed[Len(fed)].op = "get_results")
    => /\ ldap_records = <<>>
       /\ parsing_state = WAITING_FOR_LDAP_OBJECT

-----------------------------------------------------------------------------
\* OutflankC2JsonParser.process_line (parsers/outflankc2.py).  A physical line
\* of the log is given by what line.split('UTC ', 1) and json.loads make of
\* it: whether it holds 'UTC ', whether the rest is JSON, which of the fields
\* the decoded object has and their values.  A field that is absent has the
\* empty string as its value here.

MaxEnvelopes == 2
MaxPayloadLines == 2

bofname == <<"l", "d", "a", "p", "s", "e", "a", "r", "c", "h">>

task_response ==
    <<"t", "a", "s", "k", "_", "r", "e", "s", "p", "o", "n", "s", "e">>

NAME_MIXED == <<"L", "d", "a", "p", "S", "e", "a", "r", "c", "h">>
NAME_OTHER == <<"w", "h", "o", "a", "m", "i">>
EVENT_OTHER == <<"t", "a", "s", "k">>

\* str.splitlines() for the line end "\n": no empty string after a final one
RECURSIVE splitlines_from(_, _)
splitlines_from(s, line) ==
    IF s = <<>> THEN IF line = <<>> THEN <<>> ELSE <<line>>
    ELSE IF Head(s) = "\n" THEN <<line>> \o splitlines_from(Tail(s), <<>>)
    ELSE splitlines_from(Tail(s), Append(line, Head(s)))

splitlines(s) == splitlines_from(s, <<>>)

RECURSIVE join_lines(_)
join_lines(lines) ==
    IF lines = <<>> THEN <<>>
    ELSE IF Len(lines) = 1 THEN Head(lines)
    ELSE Head(lines) \o <<"\n">> \o join_lines(Tail(lines))

Payloads ==
    {join_lines(lines) :
        lines \in UNION {[1..n -> {boundary_pattern, LINE_KV2}] :
                            n \in 0..MaxPayloadLines}}

AllFields == {"event_type", "task", "name", "response"}

Envelope(utc, json, fields, event_type, name, response) ==
    [utc |-> utc, json |-> json, fields |-> fields,
     event_type |-> event_type, name |-> name, response |-> response]

Envelopes ==
    {Envelope(TRUE, TRUE, AllFields, task_response, name, response) :
        name \in {bofname, NAME_MIXED, NAME_OTHER}, response \in Payloads}
    \cup {Envelope(TRUE, TRUE, {"event_type"}, EVENT_OTHER, <<>>, <<>>),
          Envelope(TRUE, TRUE, AllFields, EVENT_OTHER, bofname, LINE_KV2)}
    \cup {Envelope(FALSE, FALSE, {}, <<>>, <<>>, <<>>),
          Envelope(TRUE, FALSE, {}, <<>>, <<>>, <<>>),
          Envelope(TRUE, TRUE, {}, <<>>, <<>>, <<>>),
          Envelope(TRUE, TRUE, {"event_type"}, task_response, <<>>, <<>>),
          Envelope(TRUE, TRUE, {"event_type", "task"}, task_response,
                   <<>>, <<>>),
          Envelope(TRUE, TRUE, {"event_type", "task", "name"}, task_response,
                   bofname, <<>>)}

CallReturned(p) == [raised |-> "none", parser |-> p]
CallRaised(p, exception) == [raised |-> exception, parser |-> p]

OutflankC2JsonParser_process_line_cased(p, line) ==
    IF ~line.utc THEN CallRaised(p, "IndexError")
    ELSE IF ~line.json THEN CallRaised(p, "JSONDecodeError")
    ELSE IF "event_type" \notin line.fields THEN CallRaised(p, "KeyError")
    ELSE IF line.event_type # task_response THEN CallReturned(p)
    ELSE IF {"task", "name"} \ line.fields # {} THEN CallRaised(p, "KeyError")
    ELSE IF line.name # bofname THEN CallReturned(p)
    ELSE IF "response" \notin line.fields THEN CallRaised(p, "KeyError")
    ELSE CallReturned(feed_lines(p, splitlines(line.response)))

\* process_line of the Outflank variant: what it raises, if it raises, and
\* the parser after the call
OutflankC2JsonParser_process_line(p, line) ==
    IF ~line.utc THEN CallRaised(p, "IndexError")
    ELSE IF ~line.json THEN CallRaised(p, "JSONDecodeError")
    ELSE IF "event_type" \notin line.fields THEN CallRaised(p, "KeyError")
    ELSE IF line.event_type # task_response THEN CallReturned(p)
    ELSE IF {"task", "name"} \ line.fields # {} THEN CallRaised(p, "KeyError")
    ELSE IF Lower(line.name) # bofname THEN CallReturned(p)
    ELSE IF "response" \notin line.fields THEN CallRaised(p, "KeyError")
    ELSE CallReturned(feed_lines(p, splitlines(line.response)))

InitOutflank ==
    /\ IdleParser
    /\ IdleRun
    /\ pc = "outflank"
    /\ entry_data = "none"
    /\ context = "none"
    /\ outcome = "none"
    /\ dispatcher = "none"

\* one physical line of the log is given to the parser
OutflankProcessLine ==
    /\ Len(fed) < MaxEnvelopes
    /\ \E line \in Envelopes :
          LET call == OutflankC2JsonParser_process_line(Parser, line)
          IN  /\ parsing_state' = call.parser.parsing_state
              /\ current_record_lines' = call.parser.current_record_lines
              /\ ldap_records' = call.parser.ldap_records
              /\ accumulated_chars' = call.parser.accumulated_chars
              /\ fed' = Append(fed, [op |-> "process_line", raw |-> line,
                                     line |-> <<>>, result |-> call.raised])
    /\ UNCHANGED <<returned, last_line, last_result, run_len, pc, plan,
                   acl_vars, run_vars>>

NextOutflank == OutflankProcessLine

SpecOutflank == InitOutflank /\ [][NextOutflank]_vars

\* C36: no call of process_line of the Outflank variant raises, whatever the
\* line is.
C36_NeverAnError ==
    \A i \in DOMAIN fed : fed[i].result = "none"

-----------------------------------------------------------------------------
\* the envelope of the last call is well formed and it matches the filter
Forwarded(line) ==
    /\ line.event_type = task_response
    /\ Lower(line.name) = bofname

\* C37: a call with a well-formed envelope (one that makes process_line
\* return) changes the parser only when the event type is 'task_response'
\* and the task name is 'ldapsearch' in any case, and then as feeding the
\* lines of the response, in order, to the base parser does; every other
\* well-formed envelope leaves the state, the open block, the pending
\* boundary count and the records as they were.
C37_EnvelopeFilter ==
    [][(fed' # fed /\ fed'[Len(fed')].result = "none")
       => LET line == fed'[Len(fed')].raw
              p == IF Forwarded(line)
                   THEN feed_lines(Parser, splitlines(line.response))
                   ELSE Parser
          IN  /\ parsing_state' = p.parsing_state
              /\ current_record_lines' = p.current_record_lines
              /\ ldap_records' = p.ldap_records
              /\ accumulated_chars' = p.accumulated_chars]_vars

\* a response of two lines under the task name 'LdapSearch' has opened a
\* block holding its attribute line, and an envelope of another command
\* after it has changed nothing
C37_Witness ==
    /\ Len(fed) = 2
    /\ fed[1].raw.name = NAME_MIXED
    /\ fed[1].raw.response = boundary_pattern \o <<"\n">> \o LINE_KV2
    /\ fed[2].raw.name = NAME_OTHER
    /\ fed[2].raw.response = fed[1].raw.response
    /\ fed[2].result = "none"
    /\ parsing_state = IN_LDAP_OBJECT
    /\ current_record_lines = <<LINE_KV2>>

-----------------------------------------------------------------------------
\* the records of the readable files among the first n, file by file
RECURSIVE worker_records(_, _)
worker_records(files, n) ==
    IF n = 0 THEN <<>>
    ELSE worker_records(files, n - 1) \o worker_parse_file(files[n]).ldap

Unreadable == {i \in DOMAIN pipeline.files : ~pipeline.files[i].readable}

\* C38: the parallel path never ends with an exception; a file whose worker
\* raised is logged and adds nothing, and when the pool is done the result
\* holds, as a multiset, the records of every other file, in whatever order
\* the workers completed.
C38_WorkerFailureIsolation ==
    pipeline.path = "parallel"
    => /\ pipeline.phase # "raised"
       /\ pipeline.logged \subseteq Unreadable
       /\ (pipeline.phase = "done"
           => /\ pipeline.logged = Unreadable
              /\ SameMultiset(pipeline.result,
                              worker_records(pipeline.files,
                                             Len(pipeline.files))))

\* the first file could not be read, the second gave a record, and the pool
\* is done
C38_Witness ==
    /\ pipeline.path = "parallel"
    /\ pipeline.phase = "done"
    /\ pipeline.logged = {1}
    /\ Len(pipeline.files) = 2
    /\ pipeline.files[2].lines = <<boundary_pattern, LINE_KV2>>
    /\ Len(pipeline.result) = 1

-----------------------------------------------------------------------------
\* what parse_acl_for_object gives for each object of a list and the context
\* alone
EachOfObjectAndContext(list, ctx) ==
    [k \in 1..Len(list) |-> parse_acl_for_object(list[k], ctx)]

\* every entry of a dictionary of results is what parse_acl_for_object gives
\* for an object with that identifier and the context alone
ResultsOfObjectAndContext(results) ==
    LET list == obj_data_list(dispatcher.objects)
    IN  \A id \in DOMAIN results :
           \E i \in DOMAIN list :
              /\ list[i].object_id = id
              /\ LET r == parse_acl_for_object(list[i], context)
                 IN  /\ results[id].aces = r.relations
                     /\ results[id].is_protected = r.is_acl_protected

-----------------------------------------------------------------------------
\* SpecAccumulator: blocks made of blank lines, attribute lines with and
\* without a value, and lines without a colon

LINE_NOVALUE == <<"e", ":">>

BlockAlphabet ==
    {boundary_pattern, LINE_BLANK, LINE_KV2, LINE_FRAGMENT, LINE_NOVALUE}

InitAccumulator ==
    /\ InitParser
    /\ pc = "block"

FeedBlockLine ==
    /\ Len(fed) < MaxOps
    /\ \E raw \in BlockAlphabet : ProcessLine(raw)
    /\ UNCHANGED <<pc, plan>>

NextAccumulator == FeedBlockLine

SpecAccumulator == InitAccumulator /\ [][NextAccumulator]_vars

\* C40: after each line of the open block the accumulator has met no missing
\* key, and when in_attribute_key is false current_attribute is a key of
\* attributes; the keys of attributes change only at a line that has a
\* non-empty value after its first colon.
C40_AccumulatorInvariant ==
    LET lines == current_record_lines
        n == Len(lines)
        a == AccumulatorRun(AccumulatorInit, lines)
    IN  /\ ~a.key_error
        /\ ~a.in_attribute_key => a.current_attribute \in DOMAIN a.attributes
        /\ n > 0 =>
              LET before == AccumulatorRun(AccumulatorInit,
                                           SubSeq(lines, 1, n - 1))
              IN  DOMAIN a.attributes # DOMAIN before.attributes
                  => /\ Truthy(get_key_value(lines[n]))
                     /\ FirstColon(lines[n]) > 0

\* a value, a blank line and a line without a colon: the line has been
\* appended to the value of the attribute
C40_Witness ==
    /\ parsing_state = IN_LDAP_OBJECT
    /\ current_record_lines = <<LINE_KV2, <<>>, LINE_FRAGMENT>>
    /\ LET a == AccumulatorRun(AccumulatorInit, current_record_lines)
       IN  /\ ~a.in_attribute_key
           /\ a.current_attribute = <<"d">>
           /\ a.attributes[<<"d">>] = <<"1", "x">>

====
